---- MODULE Spec2Model ----
(***************************************************************************)
(* Asynchronous file-copy pipelines of src/02_async_io: io-uring-cp.c,     *)
(* linux-aio-cp.c and posix-aio-cp.c, together with the file helpers of    *)
(* common.h and the operating system's side of each asynchronous request.  *)
(* The synchronous copy of sync-cp.c (specification SyncSpec) and the      *)
(* single-producer/single-consumer ring buffer of                          *)
(* src/03_circular_buffer/circular-buffer.c (specification RingSpec) are   *)
(* programs of their own, as are the thread pool copy of thread-pool-cp.c  *)
(* (PoolSpec) and the spinlock benchmark of src/01_pthreads_sync/spinlock.c *)
(* (SpinSpec); each has its variables and its actions, and the variables   *)
(* of the other programs stay as they start.                               *)
(*                                                                         *)
(* Sizes are scaled down so that the state space is finite and small: the  *)
(* block size and the pool size keep their names, uint32_t arithmetic is   *)
(* taken modulo UINT32_MOD.                                                *)
(***************************************************************************)
EXTENDS Integers, Sequences, FiniteSets, TLC

\* #define READ_BLOCK_SIZE 8192U, scaled down.
READ_BLOCK_SIZE == 2

\* #define QUEUE_SIZE 64U, scaled down.
QUEUE_SIZE == 2

\* 2^32, the modulus of uint32_t (file_size, src_size), scaled down; a
\* multiple of READ_BLOCK_SIZE as 2^32 is a multiple of 8192.
UINT32_MOD == 8

\* Largest source file (st_size) explored below the uint32_t modulus.
MaxSize == 5

\* Largest argument count explored.
MaxArgc == 4

VARIABLES
    argc,           \* main's argc: the program name and the arguments given
    backend,        \* which program runs: "io_uring", "linux_aio", "posix_aio"
    faulty,         \* environment: may an operation fail or transfer short?
    pc,             \* position of main()
    src,            \* source file content (never written)
    dst,            \* destination file content
    src_size,       \* main's uint32_t src_size / status.src_size
    src_off,        \* read cursor: src_off / status.src_off
    num_io_reqs,    \* num_io_reqs / status.num_block_in_progress
    block_statuses, \* io-uring: status.block_statuses[]
    iocbs,          \* linux-aio iocbs[] / posix-aio aiocbs[]
    wait_list,      \* posix-aio: wait_list[i] # NULL
    submit_list,    \* linux-aio: submit_list[0..num_to_submit)
    events,         \* linux-aio: events[ev..num_events) still to handle
    scan_i,         \* posix-aio: aio_i of the scan loop
    buffers,        \* the buffer pool, one READ_BLOCK_SIZE buffer per cell
    sq,             \* prepared requests the OS has not taken: io-uring's unflushed
                    \* entries, linux-aio's control blocks io_submit left behind
    inflight,       \* requests the OS holds and has not completed
    cq,             \* completions the driver has not consumed yet
    issued,         \* history: how often each (operation, offset) was
                    \* handed to the OS
    sync_i,         \* sync-cp: the loop's uint32_t i
    sync_bytes_read, \* sync-cp: bytes_read, the result of the last read()
    src_pos,        \* sync-cp: file offset of src_fd
    dst_pos,        \* sync-cp: file offset of dst_fd
    queue,          \* circular-buffer: main's QUEUE queue
    producer,       \* circular-buffer: locals of thread_producer
    consumer,       \* circular-buffer: locals of thread_consumer
    workers,        \* thread-pool-cp: position and locals of each thread_func
    pool_buffer,    \* thread-pool-cp: main's buffer, one block per thread
    lock_taken,     \* spinlock: spinlock.lock_taken
    var,            \* spinlock: the global var
    spinners        \* spinlock: position and locals of each thread_func

vars == <<argc, backend, faulty, pc, src, dst, src_size, src_off, num_io_reqs,
          block_statuses, iocbs, wait_list, submit_list, events, scan_i,
          buffers, sq, inflight, cq, issued, sync_i, sync_bytes_read,
          src_pos, dst_pos, queue, producer, consumer, workers,
          pool_buffer, lock_taken, var, spinners>>

\* The variables of sync-cp alone, of the ring buffer, and of the asynchronous
\* pipelines alone.
syncVars == <<sync_i, sync_bytes_read, src_pos, dst_pos>>

ringVars == <<queue, producer, consumer>>

poolVars == <<workers, pool_buffer>>

spinVars == <<lock_taken, var, spinners>>

asyncVars == <<src_off, num_io_reqs, block_statuses, iocbs, wait_list,
               submit_list, events, scan_i, sq, inflight, cq>>

Backends == {"io_uring", "linux_aio", "posix_aio"}

Cells == 0 .. (QUEUE_SIZE - 1)

Min(a, b) == IF a < b THEN a ELSE b

Max(a, b) == IF a > b THEN a ELSE b

Uint32(x) == x % UINT32_MOD

\* A byte never found in the source: content of memory nobody initialized.
UninitByte == 0 - 1

\* The source file of n bytes: byte i (1-based) has value i.
SrcFile(n) == [i \in 1 .. n |-> i]

Zeros(n) == [i \in 1 .. n |-> 0]

\* st_size of the sources explored: the small ones, the largest a uint32_t
\* can hold, and two that it cannot hold.
Sizes == (0 .. MaxSize) \cup {UINT32_MOD - 1, UINT32_MOD, UINT32_MOD + 1}

\* What the destination path may hold before the run: nothing, or an older
\* file of bytes not found in the source.
OldFiles == {<<>>, [i \in 1 .. (MaxSize + 1) |-> UninitByte]}

Remove(s, i) == SubSeq(s, 1, i - 1) \o SubSeq(s, i + 1, Len(s))

\* Number of entries of the sequence s that belong to cell c.
RECURSIVE CountCell(_, _)
CountCell(s, c) ==
    IF s = <<>> THEN 0
    ELSE (IF Head(s).cell = c THEN 1 ELSE 0) + CountCell(Tail(s), c)

\* The history of requests handed to the OS: none yet.
NoneIssued == [x \in {} |-> 0]

\* The history h with one more request counted.
Counted(h, req) ==
    LET x == <<req.op, req.offset>>
    IN  IF x \in DOMAIN h THEN [h EXCEPT ![x] = @ + 1] ELSE h @@ (x :> 1)

RECURSIVE CountedAll(_, _)
CountedAll(h, reqs) ==
    IF reqs = <<>> THEN h
    ELSE CountedAll(Counted(h, Head(reqs)), Tail(reqs))

\* The step's new requests, appended to those the OS holds, enter the history.
LogHanded ==
    issued' = CountedAll(issued, SubSeq(inflight', Len(inflight) + 1,
                                        Len(inflight')))

(***************************************************************************)
(* Files as the OS keeps them.                                             *)
(***************************************************************************)

\* pwrite of data at byte offset off; a gap past the end reads as zeros.
WriteAt(file, off, data) ==
    [i \in 1 .. Max(Len(file), off + Len(data)) |->
        IF i > off /\ i <= off + Len(data) THEN data[i - off]
        ELSE IF i <= Len(file) THEN file[i] ELSE 0]

\* ftruncate(fd, n): cut, or extend with zeros.
Truncate(file, n) ==
    [i \in 1 .. n |-> IF i <= Len(file) THEN file[i] ELSE 0]

\* pread of r bytes at offset off into a buffer; the rest of it is kept.
ReadInto(buf, off, r) ==
    [i \in 1 .. READ_BLOCK_SIZE |-> IF i <= r THEN src[off + i] ELSE buf[i]]

\* Bytes a read request can get: up to end of file, none at or past it.
ReadAvail(req) == Max(0, Min(req.nbytes, Len(src) - req.offset))

\* Results the OS may report for a read.
ReadResults(req) ==
    IF faulty THEN {0 - 1} \cup (0 .. ReadAvail(req)) ELSE {ReadAvail(req)}

\* Results the OS may report for a write. A negative nbytes stands for a
\* negative int converted to size_t: the kernel either rejects the transfer
\* or writes what it can map starting at the buffer.
WriteResults(req) ==
    IF req.nbytes < 0 THEN {0 - 1, READ_BLOCK_SIZE}
    ELSE IF faulty THEN {0 - 1} \cup (0 .. req.nbytes)
    ELSE {req.nbytes}

Results(req) == IF req.op = "read" THEN ReadResults(req) ELSE WriteResults(req)

\* The OS finishes the i-th request it holds, with result r. The completion
\* is kept with the kind of operation it belongs to, which the program is not
\* told: it sees the cell (user_data, the control block) and the result.
OsComplete(i, r) ==
    LET req == inflight[i] IN
    /\ inflight' = Remove(inflight, i)
    /\ cq' = Append(cq, [cell |-> req.cell, res |-> r, op |-> req.op])
    /\ IF req.op = "read" /\ r > 0
       THEN buffers' = [buffers EXCEPT ![req.cell] = ReadInto(@, req.offset, r)]
       ELSE UNCHANGED buffers
    /\ IF req.op = "write" /\ r > 0
       THEN dst' = WriteAt(dst, req.offset, SubSeq(buffers[req.cell], 1, r))
       ELSE UNCHANGED dst

Complete ==
    /\ \E i \in 1 .. Len(inflight) : \E r \in Results(inflight[i]) :
          OsComplete(i, r)
    /\ UNCHANGED <<syncVars, ringVars, poolVars, spinVars, issued, argc, backend, faulty, pc, src, src_size, src_off, num_io_reqs,
                   block_statuses, iocbs, wait_list, submit_list, events,
                   scan_i, sq>>

(***************************************************************************)
(* common.h                                                                *)
(***************************************************************************)

\* Mutant: any count of at least two arguments is accepted.
ArgcOk_AtLeast == argc >= 3

\* if (argc != 3) { usage; exit(EXIT_FAILURE); }: argv[0] and two arguments.
ArgcOk == argc = 3

\* The usage branch of main(): a message, then exit(EXIT_FAILURE).
Usage ==
    /\ pc = "start"
    /\ ~ArgcOk
    /\ pc' = "failed"
    /\ UNCHANGED <<syncVars, ringVars, poolVars, spinVars, issued, argc, backend, faulty, src, dst, src_size, src_off,
                   num_io_reqs, block_statuses, iocbs, wait_list, submit_list,
                   events, scan_i, buffers, sq, inflight, cq>>

\* open_src_file: *file_size = statbuf.st_size, stored in a uint32_t.
open_src_file == Uint32(Len(src))

\* fallocate(fd, 0, 0, len) fails with EINVAL for len = 0, and may fail for
\* lack of space.
FallocateFails(len) == len = 0 \/ faulty

\* open_dst_file: O_TRUNC empties the file, fallocate extends it to src_size.
OpenFiles ==
    /\ pc = "start"
    /\ ArgcOk
    /\ src_size' = open_src_file
    /\ \/ /\ ~(open_src_file = 0)
          /\ dst' = Zeros(open_src_file)
          /\ pc' = "init"
       \/ /\ FallocateFails(open_src_file)
          /\ dst' = <<>>
          /\ pc' = "failed"
    /\ UNCHANGED <<syncVars, ringVars, poolVars, spinVars, issued, argc, backend, faulty, src, src_off, num_io_reqs, block_statuses,
                   iocbs, wait_list, submit_list, events, scan_i, buffers,
                   sq, inflight, cq>>

\* close_src_dst_files(.., src_size, ..): ftruncate(dst_fd, src_size).
close_src_dst_files ==
    /\ pc = "close"
    /\ \/ /\ dst' = Truncate(dst, src_size)
          /\ pc' = "done"
       \/ /\ faulty
          /\ UNCHANGED dst
          /\ pc' = "failed"
    /\ UNCHANGED <<syncVars, ringVars, poolVars, spinVars, issued, argc, backend, faulty, src, src_size, src_off, num_io_reqs,
                   block_statuses, iocbs, wait_list, submit_list, events,
                   scan_i, buffers, sq, inflight, cq>>

(***************************************************************************)
(* io-uring-cp.c                                                           *)
(***************************************************************************)

\* The part of struct CopyStatus the request functions work on.
Status ==
    [src_off |-> src_off, src_size |-> src_size,
     num_block_in_progress |-> num_io_reqs,
     block_statuses |-> block_statuses, sq |-> sq]

\* Mutant: the cursor advances by a whole block whatever is left.
BlockSize_WholeBlock(bytes_left) == READ_BLOCK_SIZE

\* block->size = (bytes_left < READ_BLOCK_SIZE)? bytes_left : READ_BLOCK_SIZE
BlockSize(bytes_left) ==
    IF bytes_left < READ_BLOCK_SIZE THEN bytes_left ELSE READ_BLOCK_SIZE

\* Mutant: a prepared read is not counted as a block in progress.
prepare_read_request_NoCount(status, cell) ==
    LET bytes_left == Uint32(status.src_size - status.src_off)
        size       == BlockSize(bytes_left)
    IN  IF bytes_left = 0 THEN status
        ELSE [status EXCEPT
                !.block_statuses[cell] =
                    [stage |-> "BLOCK_IN_READ", offset |-> status.src_off,
                     size |-> size],
                !.sq = Append(@, [cell |-> cell, op |-> "read",
                                  offset |-> status.src_off,
                                  nbytes |-> READ_BLOCK_SIZE]),
                !.src_off = @ + size]

prepare_read_request(status, cell) ==
    LET bytes_left == Uint32(status.src_size - status.src_off)
        size       == BlockSize(bytes_left)
    IN  IF bytes_left = 0 THEN status
        ELSE [status EXCEPT
                !.block_statuses[cell] =
                    [stage |-> "BLOCK_IN_READ", offset |-> status.src_off,
                     size |-> size],
                !.sq = Append(@, [cell |-> cell, op |-> "read",
                                  offset |-> status.src_off,
                                  nbytes |-> READ_BLOCK_SIZE]),
                !.src_off = @ + size,
                !.num_block_in_progress = (@ + 1) % 65536]

\* Mutant: a finished read retires the block instead of writing it.
prepare_write_request_Retire(status, cell) ==
    [status EXCEPT
        !.block_statuses[cell].stage = "BLOCK_IDLE",
        !.num_block_in_progress = (@ - 1) % 65536]

\* Mutant: the write goes to the read cursor, not to the block's own offset.
prepare_write_request_AtCursor(status, cell) ==
    [status EXCEPT
        !.block_statuses[cell].stage = "BLOCK_IN_WRITE",
        !.sq = Append(@, [cell |-> cell, op |-> "write",
                          offset |-> status.src_off,
                          nbytes |-> READ_BLOCK_SIZE])]

\* Mutant: switching to the write forgets the size of the block.
prepare_write_request_ClearSize(status, cell) ==
    [status EXCEPT
        !.block_statuses[cell].stage = "BLOCK_IN_WRITE",
        !.block_statuses[cell].size = 0,
        !.sq = Append(@, [cell |-> cell, op |-> "write",
                          offset |-> status.block_statuses[cell].offset,
                          nbytes |-> READ_BLOCK_SIZE])]

prepare_write_request(status, cell) ==
    [status EXCEPT
        !.block_statuses[cell].stage = "BLOCK_IN_WRITE",
        !.sq = Append(@, [cell |-> cell, op |-> "write",
                          offset |-> status.block_statuses[cell].offset,
                          nbytes |-> READ_BLOCK_SIZE])]

\* Mutant: the finished block is not taken off the in-progress count.
finish_write_request_NoDecrement(status, cell) ==
    [status EXCEPT !.block_statuses[cell].stage = "BLOCK_IDLE"]

finish_write_request(status, cell) ==
    [status EXCEPT
        !.block_statuses[cell].stage = "BLOCK_IDLE",
        !.num_block_in_progress = (@ - 1) % 65536]

\* for (cell_i = 0; cell_i < QUEUE_SIZE; ++cell_i) prepare_read_request(..)
RECURSIVE InitialReads(_, _)
InitialReads(status, cell_i) ==
    IF cell_i < QUEUE_SIZE
    THEN InitialReads(prepare_read_request(status, cell_i), cell_i + 1)
    ELSE status

\* Write a Status value back to the variables.
SetStatus(status) ==
    /\ src_off' = status.src_off
    /\ num_io_reqs' = status.num_block_in_progress
    /\ block_statuses' = status.block_statuses
    /\ sq' = status.sq

\* What init_copying_status may end in when the ring cannot be set up or an
\* allocation fails. io_uring_queue_init and io_uring_register_buffers are
\* checked: exit(EXIT_FAILURE). aligned_alloc and calloc are not: the loop
\* stores through the null fixed_buffers, which kills the process, or, where
\* the store is not performed, io_uring_register_buffers rejects the vector.
UringSetupFailure == {"failed", "killed"}

\* What the setup of linux-aio-cp.c and posix-aio-cp.c ends in when
\* aligned_alloc, io_setup or calloc fails: each is checked, exit(EXIT_FAILURE).
AioSetupFailure == {"failed"}

\* init_copying_status and the initial read loop.
UringInit ==
    /\ backend = "io_uring"
    /\ pc = "init"
    /\ \/ /\ SetStatus(InitialReads(Status, 0))
          /\ pc' = "loop"
       \/ /\ faulty
          /\ pc' \in UringSetupFailure
          /\ UNCHANGED <<src_off, num_io_reqs, block_statuses, sq>>
    /\ UNCHANGED <<syncVars, ringVars, poolVars, spinVars, issued, argc, backend, faulty, src, dst, src_size, iocbs, wait_list,
                   submit_list, events, scan_i, buffers, inflight, cq>>

\* Mutant: the loop goes on only while the cursor is short of the size.
UringLoopCond_CursorOnly == src_off # src_size

\* while (status.src_off != status.src_size || status.num_block_in_progress != 0)
UringLoopCond == src_off # src_size \/ num_io_reqs # 0

UringLoop ==
    /\ backend = "io_uring"
    /\ pc = "loop"
    /\ pc' = IF UringLoopCond THEN "submit" ELSE "close"
    /\ UNCHANGED <<syncVars, ringVars, poolVars, spinVars, issued, argc, backend, faulty, src, dst, src_size, src_off, num_io_reqs,
                   block_statuses, iocbs, wait_list, submit_list, events,
                   scan_i, buffers, sq, inflight, cq>>

\* Mutant: the flush hands the entries over and leaves them in the queue.
UringSubmit_KeepEntries ==
    /\ backend = "io_uring"
    /\ pc = "submit"
    /\ inflight' = inflight \o sq
    /\ sq' = sq
    /\ pc' = "wait"
    /\ LogHanded
    /\ UNCHANGED <<syncVars, ringVars, poolVars, spinVars, argc, backend, faulty, src, dst, src_size, src_off, num_io_reqs,
                   block_statuses, iocbs, wait_list, submit_list, events,
                   scan_i, buffers, cq>>

\* io_uring_submit_and_wait, first half: every prepared entry goes to the OS.
UringSubmit ==
    /\ backend = "io_uring"
    /\ pc = "submit"
    /\ inflight' = inflight \o sq
    /\ sq' = <<>>
    /\ pc' = "wait"
    /\ LogHanded
    /\ UNCHANGED <<syncVars, ringVars, poolVars, spinVars, argc, backend, faulty, src, dst, src_size, src_off, num_io_reqs,
                   block_statuses, iocbs, wait_list, submit_list, events,
                   scan_i, buffers, cq>>

\* io_uring_submit_and_wait, second half: block until one completion is there.
UringWait ==
    /\ backend = "io_uring"
    /\ pc = "wait"
    /\ cq # <<>>
    /\ pc' = "handle"
    /\ UNCHANGED <<syncVars, ringVars, poolVars, spinVars, issued, argc, backend, faulty, src, dst, src_size, src_off, num_io_reqs,
                   block_statuses, iocbs, wait_list, submit_list, events,
                   scan_i, buffers, sq, inflight, cq>>

\* One pass of the do-while with a completion in the queue.
UringHandle ==
    /\ backend = "io_uring"
    /\ pc = "handle"
    /\ cq # <<>>
    /\ LET done_req == Head(cq)
           cell_i   == done_req.cell
           stage    == block_statuses[cell_i].stage
       IN  IF stage \in {"BLOCK_IN_READ", "BLOCK_IN_WRITE"} /\ done_req.res < 0
           THEN /\ pc' = "failed"
                /\ UNCHANGED <<src_off, num_io_reqs, block_statuses, sq, cq>>
           ELSE /\ pc' = "handle"
                /\ cq' = Tail(cq)
                /\ IF stage = "BLOCK_IN_READ"
                   THEN SetStatus(prepare_write_request(Status, cell_i))
                   ELSE IF stage = "BLOCK_IN_WRITE"
                   THEN SetStatus(prepare_read_request(
                            finish_write_request(Status, cell_i), cell_i))
                   ELSE UNCHANGED <<src_off, num_io_reqs, block_statuses, sq>>
    /\ UNCHANGED <<syncVars, ringVars, poolVars, spinVars, issued, argc, backend, faulty, src, dst, src_size, iocbs, wait_list,
                   submit_list, events, scan_i, buffers, inflight>>

\* The pass that finds the queue empty: cell_i = -1 ends the do-while.
UringHandleEnd ==
    /\ backend = "io_uring"
    /\ pc = "handle"
    /\ cq = <<>>
    /\ pc' = "loop"
    /\ UNCHANGED <<syncVars, ringVars, poolVars, spinVars, issued, argc, backend, faulty, src, dst, src_size, src_off, num_io_reqs,
                   block_statuses, iocbs, wait_list, submit_list, events,
                   scan_i, buffers, sq, inflight, cq>>

(***************************************************************************)
(* linux-aio-cp.c                                                          *)
(***************************************************************************)

\* src_size = src_size + READ_BLOCK_SIZE - (src_size % READ_BLOCK_SIZE)
RoundSize(size) ==
    Uint32(size + READ_BLOCK_SIZE - (size % READ_BLOCK_SIZE))

\* The request the OS receives for a control block, as it is at submission.
Request(cell, cb) ==
    [cell |-> cell,
     op |-> IF cb.aio_lio_opcode \in {"IO_CMD_PREAD", "LIO_READ"}
            THEN "read" ELSE "write",
     offset |-> cb.offset, nbytes |-> cb.nbytes]

\* Mutant: every read is set up at the start of the file.
io_read_setup_AtZero(offset, size) ==
    [aio_lio_opcode |-> "IO_CMD_PREAD", offset |-> 0, nbytes |-> size]

io_read_setup(offset, size) ==
    [aio_lio_opcode |-> "IO_CMD_PREAD", offset |-> offset, nbytes |-> size]

io_write_setup(offset, size) ==
    [aio_lio_opcode |-> "IO_CMD_PWRITE", offset |-> offset, nbytes |-> size]

\* The part of main's locals the initial loop and the handlers work on.
AioState ==
    [src_off |-> src_off, num_io_reqs |-> num_io_reqs, iocbs |-> iocbs,
     submit_list |-> submit_list, wait_list |-> wait_list,
     inflight |-> inflight]

SetAioState(st) ==
    /\ src_off' = st.src_off
    /\ num_io_reqs' = st.num_io_reqs
    /\ iocbs' = st.iocbs
    /\ submit_list' = st.submit_list
    /\ wait_list' = st.wait_list
    /\ inflight' = st.inflight

\* for (aio_i = 0; aio_i < QUEUE_SIZE && src_off < src_size; ++aio_i, ++num_io_reqs)
RECURSIVE LaioInitialReads(_, _, _)
LaioInitialReads(st, size, aio_i) ==
    IF aio_i < QUEUE_SIZE /\ st.src_off < size
    THEN LaioInitialReads(
            [st EXCEPT
                !.iocbs[aio_i] = io_read_setup(st.src_off, READ_BLOCK_SIZE),
                !.submit_list = Append(@, aio_i),
                !.src_off = @ + READ_BLOCK_SIZE,
                !.num_io_reqs = @ + 1],
            size, aio_i + 1)
    ELSE st

\* Buffer and context setup, the rounding of src_size, the initial loop.
LaioInit ==
    /\ backend = "linux_aio"
    /\ pc = "init"
    /\ \/ /\ src_size' = RoundSize(src_size)
          /\ SetAioState(LaioInitialReads(AioState, RoundSize(src_size), 0))
          /\ pc' = "loop"
       \/ /\ faulty
          /\ pc' \in AioSetupFailure
          /\ UNCHANGED <<src_size, src_off, num_io_reqs, iocbs, submit_list,
                         wait_list, inflight>>
    /\ UNCHANGED <<syncVars, ringVars, poolVars, spinVars, issued, argc, backend, faulty, src, dst, block_statuses, events, scan_i,
                   buffers, sq, cq>>

\* while (num_io_reqs != 0U)
AioLoopCond == num_io_reqs # 0

LaioLoop ==
    /\ backend = "linux_aio"
    /\ pc = "loop"
    /\ pc' = IF AioLoopCond THEN "submit" ELSE "close"
    /\ UNCHANGED <<syncVars, ringVars, poolVars, spinVars, issued, argc, backend, faulty, src, dst, src_size, src_off, num_io_reqs,
                   block_statuses, iocbs, wait_list, submit_list, events,
                   scan_i, buffers, sq, inflight, cq>>

\* io_submit(io_ctx, num_to_submit, submit_list)
LaioSubmit ==
    /\ backend = "linux_aio"
    /\ pc = "submit"
    /\ \/ /\ inflight' = inflight \o
                [i \in 1 .. Len(submit_list) |->
                    Request(submit_list[i], iocbs[submit_list[i]])]
          /\ pc' = "wait"
          /\ UNCHANGED sq
       \/ /\ faulty
          /\ \E taken \in 1 .. Len(submit_list) - 1 :
                /\ inflight' = inflight \o
                      [i \in 1 .. taken |->
                          Request(submit_list[i], iocbs[submit_list[i]])]
                /\ sq' = sq \o
                      [i \in 1 .. Len(submit_list) - taken |->
                          Request(submit_list[taken + i],
                                  iocbs[submit_list[taken + i]])]
          /\ pc' = "wait"
       \/ /\ faulty
          /\ UNCHANGED <<inflight, sq>>
          /\ pc' = "failed"
    /\ LogHanded
    /\ UNCHANGED <<syncVars, ringVars, poolVars, spinVars, argc, backend, faulty, src, dst, src_size, src_off, num_io_reqs,
                   block_statuses, iocbs, wait_list, submit_list, events,
                   scan_i, buffers, cq>>

\* io_getevents(io_ctx, 1U, QUEUE_SIZE, events, NULL); num_to_submit = 0U
LaioGetEvents ==
    /\ backend = "linux_aio"
    /\ pc = "wait"
    /\ \/ /\ cq # <<>>
          /\ events' = SubSeq(cq, 1, Min(Len(cq), QUEUE_SIZE))
          /\ cq' = SubSeq(cq, Min(Len(cq), QUEUE_SIZE) + 1, Len(cq))
          /\ submit_list' = <<>>
          /\ pc' = "handle"
       \/ /\ faulty
          /\ UNCHANGED <<events, cq, submit_list>>
          /\ pc' = "failed"
    /\ UNCHANGED <<syncVars, ringVars, poolVars, spinVars, issued, argc, backend, faulty, src, dst, src_size, src_off, num_io_reqs,
                   block_statuses, iocbs, wait_list, scan_i, buffers, sq,
                   inflight>>

\* Mutant: a read of zero bytes does not retire its request.
LaioReadDone_NoRetire(st, cell, bytes_read) ==
    IF bytes_read # 0
    THEN [st EXCEPT
            !.iocbs[cell] = io_write_setup(st.iocbs[cell].offset, bytes_read),
            !.submit_list = Append(@, cell)]
    ELSE st

\* Body of the for loop over events[], for a finished read.
LaioReadDone(st, cell, bytes_read) ==
    IF bytes_read # 0
    THEN [st EXCEPT
            !.iocbs[cell] = io_write_setup(st.iocbs[cell].offset, bytes_read),
            !.submit_list = Append(@, cell)]
    ELSE [st EXCEPT !.num_io_reqs = @ - 1]

\* Mutant: a slot that is not reused stays counted as in flight.
LaioWriteDone_NoDecrement(st, size, cell, bytes_written) ==
    IF bytes_written # 0 /\ st.src_off < size
    THEN [st EXCEPT
            !.iocbs[cell] = io_read_setup(st.src_off, READ_BLOCK_SIZE),
            !.submit_list = Append(@, cell),
            !.src_off = @ + READ_BLOCK_SIZE]
    ELSE st

\* Body of the for loop over events[], for a finished write.
LaioWriteDone(st, size, cell, bytes_written) ==
    IF bytes_written # 0 /\ st.src_off < size
    THEN [st EXCEPT
            !.iocbs[cell] = io_read_setup(st.src_off, READ_BLOCK_SIZE),
            !.submit_list = Append(@, cell),
            !.src_off = @ + READ_BLOCK_SIZE]
    ELSE [st EXCEPT !.num_io_reqs = @ - 1]

LaioHandle ==
    /\ backend = "linux_aio"
    /\ pc = "handle"
    /\ events # <<>>
    /\ LET cell   == Head(events).cell
           io_ret == Head(events).res
       IN  IF iocbs[cell].aio_lio_opcode = "IO_CMD_PREAD"
           THEN SetAioState(LaioReadDone(AioState, cell, io_ret))
           ELSE IF iocbs[cell].aio_lio_opcode = "IO_CMD_PWRITE"
           THEN SetAioState(LaioWriteDone(AioState, src_size, cell, io_ret))
           ELSE SetAioState(AioState)
    /\ events' = Tail(events)
    /\ UNCHANGED <<syncVars, ringVars, poolVars, spinVars, issued, argc, backend, faulty, pc, src, dst, src_size, block_statuses,
                   scan_i, buffers, sq, cq>>

\* ev == num_events: back to the loop condition.
LaioHandleEnd ==
    /\ backend = "linux_aio"
    /\ pc = "handle"
    /\ events = <<>>
    /\ pc' = "loop"
    /\ UNCHANGED <<syncVars, ringVars, poolVars, spinVars, issued, argc, backend, faulty, src, dst, src_size, src_off, num_io_reqs,
                   block_statuses, iocbs, wait_list, submit_list, events,
                   scan_i, buffers, sq, inflight, cq>>

(***************************************************************************)
(* posix-aio-cp.c                                                          *)
(***************************************************************************)

\* aio_read_setup: fill the control block and aio_read() it at once.
aio_read_setup(st, cell, offset, size) ==
    LET cb == [aio_lio_opcode |-> "LIO_READ", offset |-> offset,
               nbytes |-> size]
    IN  [st EXCEPT !.iocbs[cell] = cb,
                   !.inflight = Append(@, Request(cell, cb))]

\* aio_write_setup: fill the control block and aio_write() it at once.
aio_write_setup(st, cell, offset, size) ==
    LET cb == [aio_lio_opcode |-> "LIO_WRITE", offset |-> offset,
               nbytes |-> size]
    IN  [st EXCEPT !.iocbs[cell] = cb,
                   !.inflight = Append(@, Request(cell, cb))]

RECURSIVE PaioInitialReads(_, _, _)
PaioInitialReads(st, size, aio_i) ==
    IF aio_i < QUEUE_SIZE /\ st.src_off < size
    THEN PaioInitialReads(
            [aio_read_setup(st, aio_i, st.src_off, READ_BLOCK_SIZE) EXCEPT
                !.wait_list[aio_i] = TRUE,
                !.src_off = @ + READ_BLOCK_SIZE,
                !.num_io_reqs = @ + 1],
            size, aio_i + 1)
    ELSE st

\* Buffer and control block setup, the rounding of src_size, the initial loop.
PaioInit ==
    /\ backend = "posix_aio"
    /\ pc = "init"
    /\ \/ /\ src_size' = RoundSize(src_size)
          /\ SetAioState(PaioInitialReads(AioState, RoundSize(src_size), 0))
          /\ pc' = "loop"
       \/ /\ faulty
          /\ pc' \in AioSetupFailure
          /\ UNCHANGED <<src_size, src_off, num_io_reqs, iocbs, submit_list,
                         wait_list, inflight>>
    /\ LogHanded
    /\ UNCHANGED <<syncVars, ringVars, poolVars, spinVars, argc, backend, faulty, src, dst, block_statuses, events, scan_i,
                   buffers, sq, cq>>

PaioLoop ==
    /\ backend = "posix_aio"
    /\ pc = "loop"
    /\ pc' = IF AioLoopCond THEN "wait" ELSE "close"
    /\ UNCHANGED <<syncVars, ringVars, poolVars, spinVars, issued, argc, backend, faulty, src, dst, src_size, src_off, num_io_reqs,
                   block_statuses, iocbs, wait_list, submit_list, events,
                   scan_i, buffers, sq, inflight, cq>>

\* aio_error(&aiocbs[cell]) == EINPROGRESS
InProgress(cell) == CountCell(inflight, cell) > 0

\* Mutant: the scan does not look at aio_error.
AioDone_NoErrorCheck(cell) == wait_list[cell]

\* The scan handles a cell: wait_list[aio_i] != NULL and not EINPROGRESS.
AioDone(cell) == wait_list[cell] /\ ~InProgress(cell)

\* Index in cq of the completion the control block of a cell holds.
Completion(cell) == CHOOSE i \in DOMAIN cq : cq[i].cell = cell

\* aio_return(&aiocbs[cell]); -1 when there is nothing to return.
aio_return(cell) ==
    IF CountCell(cq, cell) > 0 THEN cq[Completion(cell)].res ELSE 0 - 1

\* aio_suspend(wait_list, QUEUE_SIZE, NULL): until a listed request is done.
PaioSuspend ==
    /\ backend = "posix_aio"
    /\ pc = "wait"
    /\ \/ /\ \E c \in Cells : wait_list[c] /\ CountCell(cq, c) > 0
          /\ scan_i' = 0
          /\ pc' = "scan"
       \/ /\ faulty
          /\ UNCHANGED scan_i
          /\ pc' = "failed"
    /\ UNCHANGED <<syncVars, ringVars, poolVars, spinVars, issued, argc, backend, faulty, src, dst, src_size, src_off, num_io_reqs,
                   block_statuses, iocbs, wait_list, submit_list, events,
                   buffers, sq, inflight, cq>>

\* Mutant: a read that returned nothing is tried again.
PaioReadDone_Retry(st, cell, bytes_read) ==
    IF bytes_read # 0
    THEN aio_write_setup(st, cell, st.iocbs[cell].offset, bytes_read)
    ELSE aio_read_setup(st, cell, st.iocbs[cell].offset, READ_BLOCK_SIZE)

\* Body of the scan loop for a finished read.
PaioReadDone(st, cell, bytes_read) ==
    IF bytes_read # 0
    THEN aio_write_setup(st, cell, st.iocbs[cell].offset, bytes_read)
    ELSE [st EXCEPT !.wait_list[cell] = FALSE, !.num_io_reqs = @ - 1]

\* Mutant: a retired slot stays in the wait list.
PaioWriteDone_KeepListed(st, size, cell, bytes_written) ==
    IF bytes_written # 0 /\ st.src_off < size
    THEN [aio_read_setup(st, cell, st.src_off, READ_BLOCK_SIZE) EXCEPT
            !.src_off = @ + READ_BLOCK_SIZE]
    ELSE [st EXCEPT !.num_io_reqs = @ - 1]

\* Mutant: the slot is reused for a read at the cursor, which stays.
PaioWriteDone_NoAdvance(st, size, cell, bytes_written) ==
    IF bytes_written # 0 /\ st.src_off < size
    THEN aio_read_setup(st, cell, st.src_off, READ_BLOCK_SIZE)
    ELSE [st EXCEPT !.wait_list[cell] = FALSE, !.num_io_reqs = @ - 1]

\* Body of the scan loop for a finished write.
PaioWriteDone(st, size, cell, bytes_written) ==
    IF bytes_written # 0 /\ st.src_off < size
    THEN [aio_read_setup(st, cell, st.src_off, READ_BLOCK_SIZE) EXCEPT
            !.src_off = @ + READ_BLOCK_SIZE]
    ELSE [st EXCEPT !.wait_list[cell] = FALSE, !.num_io_reqs = @ - 1]

\* One pass of for (aio_i = 0; aio_i < QUEUE_SIZE; ++aio_i).
PaioScan ==
    /\ backend = "posix_aio"
    /\ pc = "scan"
    /\ scan_i < QUEUE_SIZE
    /\ scan_i' = scan_i + 1
    /\ IF ~AioDone(scan_i)
       THEN UNCHANGED <<src_off, num_io_reqs, iocbs, submit_list, wait_list,
                        inflight, cq>>
       ELSE /\ cq' = IF CountCell(cq, scan_i) > 0
                     THEN Remove(cq, Completion(scan_i)) ELSE cq
            /\ IF iocbs[scan_i].aio_lio_opcode = "LIO_READ"
               THEN SetAioState(
                        PaioReadDone(AioState, scan_i, aio_return(scan_i)))
               ELSE IF iocbs[scan_i].aio_lio_opcode = "LIO_WRITE"
               THEN SetAioState(PaioWriteDone(AioState, src_size, scan_i,
                                              aio_return(scan_i)))
               ELSE SetAioState(AioState)
    /\ LogHanded
    /\ UNCHANGED <<syncVars, ringVars, poolVars, spinVars, argc, backend, faulty, pc, src, dst, src_size, block_statuses,
                   events, buffers, sq>>

\* aio_i == QUEUE_SIZE: back to the loop condition.
PaioScanEnd ==
    /\ backend = "posix_aio"
    /\ pc = "scan"
    /\ scan_i = QUEUE_SIZE
    /\ pc' = "loop"
    /\ UNCHANGED <<syncVars, ringVars, poolVars, spinVars, issued, argc, backend, faulty, src, dst, src_size, src_off, num_io_reqs,
                   block_statuses, iocbs, wait_list, submit_list, events,
                   scan_i, buffers, sq, inflight, cq>>

(***************************************************************************)
(* sync-cp.c: one buffer, read() and write() executed inline.              *)
(***************************************************************************)

\* Before main() runs: the loop has not started, both file offsets are 0.
SyncAtStart ==
    /\ sync_i = 0
    /\ sync_bytes_read = 0
    /\ src_pos = 0
    /\ dst_pos = 0

\* buffer = aligned_alloc(READ_BLOCK_SIZE, READ_BLOCK_SIZE), checked.
SyncAlloc ==
    /\ backend = "sync"
    /\ pc = "init"
    /\ \/ pc' = "loop"
       \/ faulty /\ pc' = "failed"
    /\ UNCHANGED <<syncVars, ringVars, poolVars, spinVars, asyncVars, issued, argc, backend,
                   faulty, src, dst, src_size, buffers>>

\* for (uint32_t i = 0U; i < src_size;)
SyncLoop ==
    /\ backend = "sync"
    /\ pc = "loop"
    /\ pc' = IF sync_i < src_size THEN "read" ELSE "close"
    /\ UNCHANGED <<syncVars, ringVars, poolVars, spinVars, asyncVars, issued, argc, backend,
                   faulty, src, dst, src_size, buffers>>

\* bytes_read = read(src_fd, buffer, READ_BLOCK_SIZE); -1 ends the run.
SyncRead ==
    /\ backend = "sync"
    /\ pc = "read"
    /\ \E r \in ReadResults([offset |-> src_pos, nbytes |-> READ_BLOCK_SIZE]) :
          /\ sync_bytes_read' = r
          /\ IF r = 0 - 1
             THEN /\ pc' = "failed"
                  /\ UNCHANGED <<buffers, src_pos>>
             ELSE /\ buffers' = [buffers EXCEPT ![0] = ReadInto(@, src_pos, r)]
                  /\ src_pos' = src_pos + r
                  /\ pc' = "write"
    /\ issued' = Counted(issued, [op |-> "read", offset |-> src_pos])
    /\ UNCHANGED <<ringVars, poolVars, spinVars, asyncVars, argc, backend, faulty, src, dst,
                   src_size, sync_i, dst_pos>>

\* bytes_written = write(dst_fd, buffer, bytes_read); -1 or a short write
\* ends the run. Then i += bytes_read, and a short read leaves the loop.
SyncWrite ==
    /\ backend = "sync"
    /\ pc = "write"
    /\ \E w \in WriteResults([nbytes |-> sync_bytes_read]) :
          /\ dst' = IF w > 0
                    THEN WriteAt(dst, dst_pos, SubSeq(buffers[0], 1, w))
                    ELSE dst
          /\ dst_pos' = dst_pos + Max(w, 0)
          /\ IF w = 0 - 1 \/ w # sync_bytes_read
             THEN /\ pc' = "failed"
                  /\ UNCHANGED sync_i
             ELSE /\ sync_i' = Uint32(sync_i + sync_bytes_read)
                  /\ pc' = IF sync_bytes_read # READ_BLOCK_SIZE
                           THEN "close" ELSE "loop"
    /\ issued' = Counted(issued, [op |-> "write", offset |-> dst_pos])
    /\ UNCHANGED <<ringVars, poolVars, spinVars, asyncVars, argc, backend, faulty, src, src_size,
                   buffers, sync_bytes_read, src_pos>>

(***************************************************************************)
(* circular-buffer.c: the lock-free ring buffer and its two threads.       *)
(***************************************************************************)

\* #define NUM_ITERATIONS 100000ULL, scaled down.
NUM_ITERATIONS == 3

\* Largest size handed to queue_init (the QUEUE_SIZE of a build).
MaxQueueSize == 2

\* What the copy programs keep, which the ring buffer program leaves alone.
copyVars == <<argc, backend, faulty, src, dst, src_size, buffers, issued>>

\* (int32_t) x of a uint32_t x.
Int32(x) == IF x >= UINT32_MOD \div 2 THEN x - UINT32_MOD ELSE x

\* a & b of two uint32_t.
RECURSIVE BitAnd(_, _)
BitAnd(a, b) ==
    IF a = 0 \/ b = 0 THEN 0
    ELSE (a % 2) * (b % 2) + 2 * BitAnd(a \div 2, b \div 2)

\* The QUEUE and the thread locals while circular-buffer is not the program.
RingUnused ==
    /\ queue = [data |-> <<>>, size |-> 0, mask |-> 0, cached_head |-> 0,
                cached_tail |-> 0, head |-> 0, tail |-> 0]
    /\ producer = [pc |-> "none", snd_i |-> 0, tail |-> 0, head |-> 0]
    /\ consumer = [pc |-> "none", rcv_i |-> 0, tail |-> 0, head |-> 0,
                   snd_i |-> 0]

\* main's "QUEUE queue;": an automatic object, every field holds whatever
\* the stack held. The field size is not part of QUEUE: it is the length
\* calloc was asked for, kept to tell the array from the memory past it.
UninitQueue(garbage) ==
    [data |-> <<>>, size |-> 0, mask |-> garbage, cached_head |-> garbage,
     cached_tail |-> garbage, head |-> garbage, tail |-> garbage]

\* The array calloc returns, zeroed, followed by the memory past its end.
Calloc(size) ==
    [k \in 0 .. (UINT32_MOD - 1) |-> IF k < size THEN 0 ELSE UninitByte]

\* if (size == 0 || ((size - 1) & size) != 0)
BadSize(size) == size = 0 \/ BitAnd(size - 1, size) # 0

\* queue_init(&queue, size): the size check, calloc, and the four
\* assignments of lines 74-77. No statement assigns queue->mask.
queue_init ==
    /\ backend = "ring"
    /\ pc = "start"
    /\ \E size \in 0 .. MaxQueueSize :
          \/ /\ BadSize(size)
             /\ pc' = "failed"
             /\ UNCHANGED queue
          \/ /\ ~BadSize(size)
             /\ pc' = "failed"
             /\ UNCHANGED queue
          \/ /\ ~BadSize(size)
             /\ queue' = [queue EXCEPT !.data = Calloc(size), !.size = size,
                                       !.cached_head = 0, !.cached_tail = 0,
                                       !.head = 0, !.tail = 0]
             /\ pc' = "spawn"
    /\ UNCHANGED <<copyVars, asyncVars, syncVars, poolVars, spinVars, producer, consumer>>

\* main: pthread_create of thread 0 (producer) and thread 1 (consumer).
SpawnThreads ==
    /\ backend = "ring"
    /\ pc = "spawn"
    /\ \/ /\ producer' = [producer EXCEPT !.pc = "enqueue", !.snd_i = 0]
          /\ consumer' = [consumer EXCEPT !.pc = "load_head", !.rcv_i = 0,
                                          !.snd_i = 0]
          /\ pc' = "join"
       \/ /\ pc' = "failed"
          /\ UNCHANGED <<producer, consumer>>
    /\ UNCHANGED <<copyVars, asyncVars, syncVars, poolVars, spinVars, queue>>

\* main: pthread_join of both threads, return EXIT_SUCCESS.
JoinThreads ==
    /\ backend = "ring"
    /\ pc = "join"
    /\ producer.pc = "done"
    /\ consumer.pc = "done"
    /\ pc' = "done"
    /\ UNCHANGED <<copyVars, asyncVars, syncVars, poolVars, spinVars, ringVars>>

\* (int32_t)(tail - (head + queue->mask)) > 0, in uint32_t arithmetic.
Full(tail, head) ==
    Int32(Uint32(tail + UINT32_MOD - Uint32(head + queue.mask))) > 0

\* queue_enqueue, line 82 and the test of line 84.
EnqueueLoadTail ==
    /\ pc = "join"
    /\ producer.pc = "enqueue"
    /\ producer' = [producer EXCEPT
                       !.tail = queue.tail,
                       !.pc = IF Full(queue.tail, queue.cached_head)
                              THEN "enqueue_head" ELSE "store_data"]
    /\ UNCHANGED <<copyVars, asyncVars, syncVars, poolVars, spinVars, pc, queue, consumer>>

\* queue_enqueue, lines 86-93: refresh cached_head, test again; false is
\* returned to thread_producer, which goes on with queue_enqueue_simple.
EnqueueLoadHead ==
    /\ pc = "join"
    /\ producer.pc = "enqueue_head"
    /\ queue' = [queue EXCEPT !.cached_head = queue.head]
    /\ producer' = [producer EXCEPT
                       !.pc = IF Full(producer.tail, queue.head)
                              THEN "simple_head" ELSE "store_data"]
    /\ UNCHANGED <<copyVars, asyncVars, syncVars, poolVars, spinVars, pc, consumer>>

\* queue_enqueue_simple, line 126.
SimpleEnqueueLoadHead ==
    /\ pc = "join"
    /\ producer.pc = "simple_head"
    /\ producer' = [producer EXCEPT !.head = queue.head, !.pc = "simple_tail"]
    /\ UNCHANGED <<copyVars, asyncVars, syncVars, poolVars, spinVars, pc, queue, consumer>>

\* queue_enqueue_simple, lines 128-133; false makes thread_producer retry.
SimpleEnqueueLoadTail ==
    /\ pc = "join"
    /\ producer.pc = "simple_tail"
    /\ producer' = [producer EXCEPT
                       !.tail = queue.tail,
                       !.pc = IF Full(queue.tail, producer.head)
                              THEN "simple_head" ELSE "store_data"]
    /\ UNCHANGED <<copyVars, asyncVars, syncVars, poolVars, spinVars, pc, queue, consumer>>

\* queue->data[tail & queue->mask] = elem (lines 96, 135). An index past the
\* array is a store into memory the program does not own: it lands there, or
\* the process is killed.
EnqueueStoreData ==
    /\ pc = "join"
    /\ producer.pc = "store_data"
    /\ LET index == BitAnd(producer.tail, queue.mask) IN
          \/ /\ queue' = [queue EXCEPT !.data[index] = producer.snd_i]
             /\ producer' = [producer EXCEPT !.pc = "store_tail"]
             /\ UNCHANGED pc
          \/ /\ index >= queue.size
             /\ pc' = "killed"
             /\ UNCHANGED <<queue, producer>>
    /\ UNCHANGED <<copyVars, asyncVars, syncVars, poolVars, spinVars, consumer>>

\* atomic_store(&queue->tail, tail + 1) (lines 97, 136), return true, and
\* thread_producer's ++snd_i.
EnqueueStoreTail ==
    /\ pc = "join"
    /\ producer.pc = "store_tail"
    /\ queue' = [queue EXCEPT !.tail = Uint32(producer.tail + 1)]
    /\ producer' = [producer EXCEPT
                       !.snd_i = @ + 1,
                       !.pc = IF producer.snd_i + 1 < NUM_ITERATIONS
                              THEN "enqueue" ELSE "done"]
    /\ UNCHANGED <<copyVars, asyncVars, syncVars, poolVars, spinVars, pc, consumer>>

\* queue_dequeue_simple, line 143.
DequeueLoadHead ==
    /\ pc = "join"
    /\ consumer.pc = "load_head"
    /\ consumer' = [consumer EXCEPT !.head = queue.head, !.pc = "load_tail"]
    /\ UNCHANGED <<copyVars, asyncVars, syncVars, poolVars, spinVars, pc, queue, producer>>

\* queue_dequeue_simple, lines 145-149; false makes thread_consumer retry.
DequeueLoadTail ==
    /\ pc = "join"
    /\ consumer.pc = "load_tail"
    /\ consumer' = [consumer EXCEPT
                       !.tail = queue.tail,
                       !.pc = IF queue.tail = consumer.head
                              THEN "load_head" ELSE "load_data"]
    /\ UNCHANGED <<copyVars, asyncVars, syncVars, poolVars, spinVars, pc, queue, producer>>

\* thread_consumer, lines 212-216 and the loop's ++rcv_i: a value other than
\* rcv_i ends the process with exit(EXIT_FAILURE).
Compared(elem) ==
    IF elem # consumer.rcv_i
    THEN /\ pc' = "failed"
         /\ consumer' = [consumer EXCEPT !.snd_i = elem]
    ELSE /\ pc' = pc
         /\ consumer' = [consumer EXCEPT
                            !.snd_i = elem,
                            !.rcv_i = @ + 1,
                            !.pc = IF consumer.rcv_i + 1 < NUM_ITERATIONS
                                   THEN "load_head" ELSE "done"]

\* *elem = queue->data[head & queue->mask] (line 151), performed before the
\* store of line 152. An index past the array reads memory the program does
\* not own, or the process is killed.
DequeueLoadData ==
    /\ pc = "join"
    /\ consumer.pc = "load_data"
    /\ LET index == BitAnd(consumer.head, queue.mask) IN
          \/ /\ consumer' = [consumer EXCEPT !.snd_i = queue.data[index],
                                             !.pc = "store_head"]
             /\ UNCHANGED pc
          \/ /\ index >= queue.size
             /\ pc' = "killed"
             /\ UNCHANGED consumer
    /\ UNCHANGED <<copyVars, asyncVars, syncVars, poolVars, spinVars, queue, producer>>

\* atomic_store(&queue->head, head + 1, memory_order_relaxed) (line 152),
\* return true, and thread_consumer's comparison.
DequeueStoreHead ==
    /\ pc = "join"
    /\ consumer.pc = "store_head"
    /\ queue' = [queue EXCEPT !.head = Uint32(consumer.head + 1)]
    /\ Compared(consumer.snd_i)
    /\ UNCHANGED <<copyVars, asyncVars, syncVars, poolVars, spinVars, producer>>

\* The relaxed store of line 152 performed before the load of line 151. The
\* store orders nothing and the producer's loads of head are relaxed, so no
\* happens-before relation keeps the producer's next store to the cell after
\* the consumer's load from it: the two accesses race and the load may be
\* performed late.
DequeueStoreHeadEarly ==
    /\ pc = "join"
    /\ consumer.pc = "load_data"
    /\ queue' = [queue EXCEPT !.head = Uint32(consumer.head + 1)]
    /\ consumer' = [consumer EXCEPT !.pc = "late_load"]
    /\ UNCHANGED <<copyVars, asyncVars, syncVars, poolVars, spinVars, pc, producer>>

\* The load of line 151 performed after the store of line 152, then return
\* true and thread_consumer's comparison.
DequeueLateLoad ==
    /\ pc = "join"
    /\ consumer.pc = "late_load"
    /\ LET index == BitAnd(consumer.head, queue.mask) IN
          \/ Compared(queue.data[index])
          \/ /\ index >= queue.size
             /\ pc' = "killed"
             /\ UNCHANGED consumer
    /\ UNCHANGED <<copyVars, asyncVars, syncVars, poolVars, spinVars, queue, producer>>

(***************************************************************************)
(* thread-pool-cp.c: NUM_THREADS threads, thread t copying the blocks      *)
(* t, t + NUM_THREADS, t + 2 * NUM_THREADS, .. with pread() and pwrite().  *)
(***************************************************************************)

\* #define NUM_THREADS 8U, scaled down.
NUM_THREADS == 2

\* How often one (operation, offset) is counted in the history at most.
MaxCopies == 2

Threads == 0 .. (NUM_THREADS - 1)

\* Before main() runs: no thread created, the buffer not allocated.
PoolAtStart ==
    /\ workers = [t \in Threads |->
                    [pc |-> "none", i |-> 0, offset |-> 0, bytes_read |-> 0]]
    /\ pool_buffer = [j \in 1 .. (READ_BLOCK_SIZE * NUM_THREADS) |-> UninitByte]

\* args[i].buffer = &buffer[i * READ_BLOCK_SIZE]: the indices of pool_buffer
\* that thread t was given.
BufferOf(t) == (t * READ_BLOCK_SIZE + 1) .. (t * READ_BLOCK_SIZE + READ_BLOCK_SIZE)

\* pread(src_fd, args->buffer, .., off) of thread t returning r bytes.
PoolReadInto(buf, t, off, r) ==
    [j \in 1 .. (READ_BLOCK_SIZE * NUM_THREADS) |->
        IF j > t * READ_BLOCK_SIZE /\ j <= t * READ_BLOCK_SIZE + r
        THEN src[off + j - t * READ_BLOCK_SIZE]
        ELSE buf[j]]

\* The history h with one more request counted, up to MaxCopies.
PoolCounted(h, req) ==
    LET x == <<req.op, req.offset>>
    IN  IF x \in DOMAIN h THEN [h EXCEPT ![x] = Min(@ + 1, MaxCopies)]
        ELSE h @@ (x :> 1)

\* buffer = aligned_alloc(READ_BLOCK_SIZE, READ_BLOCK_SIZE * NUM_THREADS),
\* checked; then the arguments of every thread are filled in.
PoolAlloc ==
    /\ backend = "pool"
    /\ pc = "init"
    /\ \/ pc' = "spawn"
       \/ faulty /\ pc' = "failed"
    /\ UNCHANGED <<syncVars, ringVars, poolVars, spinVars, asyncVars, argc,
                   backend, faulty, src, dst, src_size, buffers, issued>>

\* One round of the spawn loop: pthread_create of the next thread, checked.
PoolSpawn ==
    /\ backend = "pool"
    /\ pc = "spawn"
    /\ \E t \in Threads :
          /\ workers[t].pc = "none"
          /\ \A u \in Threads : u < t => workers[u].pc # "none"
          /\ \/ /\ workers' = [workers EXCEPT ![t].pc = "loop"]
                /\ pc' = IF t = NUM_THREADS - 1 THEN "join" ELSE "spawn"
             \/ /\ faulty
                /\ pc' = "failed"
                /\ UNCHANGED workers
    /\ UNCHANGED <<syncVars, ringVars, spinVars, asyncVars, argc, backend,
                   faulty, src, dst, src_size, buffers, pool_buffer, issued>>

\* thread_func of thread t, from the loop test to the result of pread():
\* for (uint32_t i = 0U; i < args->src_size;), offset = i + thread_i *
\* READ_BLOCK_SIZE, break if offset > src_size, pread; -1 ends the process.
PoolRead(t) ==
    /\ backend = "pool"
    /\ pc \in {"spawn", "join"}
    /\ workers[t].pc = "loop"
    /\ LET offset == workers[t].i + t * READ_BLOCK_SIZE IN
       IF ~(workers[t].i < src_size) \/ offset > src_size
       THEN /\ workers' = [workers EXCEPT ![t].pc = "done"]
            /\ UNCHANGED <<pc, pool_buffer, issued>>
       ELSE /\ \E r \in ReadResults([offset |-> offset,
                                     nbytes |-> READ_BLOCK_SIZE]) :
                  IF r = 0 - 1
                  THEN /\ pc' = "failed"
                       /\ workers' = [workers EXCEPT ![t].offset = offset,
                                                     ![t].bytes_read = r]
                       /\ UNCHANGED pool_buffer
                  ELSE /\ pool_buffer' = PoolReadInto(pool_buffer, t, offset, r)
                       /\ workers' = [workers EXCEPT ![t].pc = "write",
                                                     ![t].offset = offset,
                                                     ![t].bytes_read = r]
                       /\ UNCHANGED pc
            /\ issued' = PoolCounted(issued, [op |-> "read", offset |-> offset])
    /\ UNCHANGED <<syncVars, ringVars, spinVars, asyncVars, argc, backend,
                   faulty, src, dst, src_size, buffers>>

\* thread_func of thread t, from pwrite() to the end of the loop body: -1 or
\* a short write ends the process; i += READ_BLOCK_SIZE * NUM_THREADS in
\* uint32_t; a short read leaves the loop.
PoolWrite(t) ==
    /\ backend = "pool"
    /\ pc \in {"spawn", "join"}
    /\ workers[t].pc = "write"
    /\ \E w \in WriteResults([nbytes |-> workers[t].bytes_read]) :
          /\ dst' = IF w > 0
                    THEN WriteAt(dst, workers[t].offset,
                                 SubSeq(pool_buffer, t * READ_BLOCK_SIZE + 1,
                                        t * READ_BLOCK_SIZE + w))
                    ELSE dst
          /\ IF w = 0 - 1 \/ w # workers[t].bytes_read
             THEN /\ pc' = "failed"
                  /\ UNCHANGED workers
             ELSE /\ workers' =
                       [workers EXCEPT
                          ![t].i = Uint32(@ + READ_BLOCK_SIZE * NUM_THREADS),
                          ![t].pc = IF workers[t].bytes_read # READ_BLOCK_SIZE
                                    THEN "done" ELSE "loop"]
                  /\ UNCHANGED pc
    /\ issued' = PoolCounted(issued, [op |-> "write",
                                      offset |-> workers[t].offset])
    /\ UNCHANGED <<syncVars, ringVars, spinVars, asyncVars, argc, backend,
                   faulty, src, src_size, buffers, pool_buffer>>

\* The join loop: pthread_join returns for every thread once it has ended.
PoolJoin ==
    /\ backend = "pool"
    /\ pc = "join"
    /\ \A t \in Threads : workers[t].pc = "done"
    /\ pc' = "close"
    /\ UNCHANGED <<syncVars, ringVars, poolVars, spinVars, asyncVars, argc,
                   backend, faulty, src, dst, src_size, buffers, issued>>

(***************************************************************************)
(* spinlock.c: NUM_THREADS threads (8U there as well) incrementing the     *)
(* global var under a test-and-set lock.                                   *)
(***************************************************************************)

\* const size_t NUM_ITERATIONS = 10000000U, scaled down so that
\* NUM_THREADS * NUM_ITERATIONS stays below the uint32_t modulus as it does
\* in the source.
SPIN_NUM_ITERATIONS == 3

\* The variables of spinlock.c in a program that is not spinlock.c.
SpinUnused ==
    /\ lock_taken = FALSE
    /\ var = 0
    /\ spinners = [t \in Threads |-> [pc |-> "none", i |-> 0, reg |-> 0]]

\* TAS_init(&spinlock): atomic_flag_clear; main() then fills args[].
TAS_init ==
    /\ backend = "spin"
    /\ pc = "start"
    /\ lock_taken' = FALSE
    /\ pc' = "spawn"
    /\ UNCHANGED <<copyVars, asyncVars, syncVars, ringVars, poolVars, var,
                   spinners>>

\* Where thread_func goes with its loop counter at i.
SpinLoop(i) == IF i < SPIN_NUM_ITERATIONS THEN "acquire" ELSE "done"

\* One round of the spawn loop: pthread_create of the next thread; on
\* failure the process exits.
SpinSpawn ==
    /\ backend = "spin"
    /\ pc = "spawn"
    /\ \E t \in Threads :
          /\ spinners[t].pc = "none"
          /\ \A u \in Threads : u < t => spinners[u].pc # "none"
          /\ \/ /\ spinners' = [spinners EXCEPT ![t].pc = SpinLoop(0)]
                /\ pc' = IF t = NUM_THREADS - 1 THEN "join" ELSE "spawn"
             \/ /\ pc' = "failed"
                /\ UNCHANGED spinners
    /\ UNCHANGED <<copyVars, asyncVars, syncVars, ringVars, poolVars,
                   lock_taken, var>>

\* Mutant: the flag is set without looking at what it was.
TAS_acquire_NoTest(t) ==
    /\ backend = "spin"
    /\ pc \in {"spawn", "join"}
    /\ spinners[t].pc = "acquire"
    /\ lock_taken' = TRUE
    /\ spinners' = [spinners EXCEPT ![t].pc = "load"]
    /\ UNCHANGED <<copyVars, asyncVars, syncVars, ringVars, poolVars, pc, var>>

\* One round of TAS_acquire: atomic_flag_test_and_set sets the flag and
\* tells what it was; the function returns when it was clear.
TAS_acquire(t) ==
    /\ backend = "spin"
    /\ pc \in {"spawn", "join"}
    /\ spinners[t].pc = "acquire"
    /\ lock_taken' = TRUE
    /\ spinners' = [spinners EXCEPT
                      ![t].pc = IF lock_taken THEN "acquire" ELSE "load"]
    /\ UNCHANGED <<copyVars, asyncVars, syncVars, ringVars, poolVars, pc, var>>

\* var++, first half: the value of var is loaded.
SpinLoad(t) ==
    /\ backend = "spin"
    /\ pc \in {"spawn", "join"}
    /\ spinners[t].pc = "load"
    /\ spinners' = [spinners EXCEPT ![t].pc = "store", ![t].reg = var]
    /\ UNCHANGED <<copyVars, asyncVars, syncVars, ringVars, poolVars, pc,
                   lock_taken, var>>

\* var++, second half: the value plus one is stored, in uint32_t.
SpinStore(t) ==
    /\ backend = "spin"
    /\ pc \in {"spawn", "join"}
    /\ spinners[t].pc = "store"
    /\ var' = Uint32(spinners[t].reg + 1)
    /\ spinners' = [spinners EXCEPT ![t].pc = "release"]
    /\ UNCHANGED <<copyVars, asyncVars, syncVars, ringVars, poolVars, pc,
                   lock_taken>>

\* TAS_release: atomic_flag_clear; then ++i and the loop test.
TAS_release(t) ==
    /\ backend = "spin"
    /\ pc \in {"spawn", "join"}
    /\ spinners[t].pc = "release"
    /\ lock_taken' = FALSE
    /\ spinners' = [spinners EXCEPT ![t].i = @ + 1,
                                    ![t].pc = SpinLoop(spinners[t].i + 1)]
    /\ UNCHANGED <<copyVars, asyncVars, syncVars, ringVars, poolVars, pc, var>>

\* The join loop, then printf of var and return.
SpinJoin ==
    /\ backend = "spin"
    /\ pc = "join"
    /\ \A t \in Threads : spinners[t].pc = "done"
    /\ pc' = "done"
    /\ UNCHANGED <<copyVars, asyncVars, syncVars, ringVars, poolVars, spinVars>>

(***************************************************************************)
(* The three programs and their environment.                               *)
(***************************************************************************)

\* Nothing set up yet: no size read, no request prepared, the buffers as
\* allocated.
AsyncAtStart ==
    /\ src_size = 0
    /\ src_off = 0
    /\ num_io_reqs = 0
    /\ block_statuses =
         [c \in Cells |-> [stage |-> "BLOCK_IDLE", offset |-> 0, size |-> 0]]
    /\ iocbs = [c \in Cells |->
                  [aio_lio_opcode |-> "none", offset |-> 0, nbytes |-> 0]]
    /\ wait_list = [c \in Cells |-> FALSE]
    /\ submit_list = <<>>
    /\ events = <<>>
    /\ scan_i = 0
    /\ buffers = [c \in Cells |-> [i \in 1 .. READ_BLOCK_SIZE |-> UninitByte]]
    /\ sq = <<>>
    /\ inflight = <<>>
    /\ cq = <<>>
    /\ issued = NoneIssued

\* Before main() runs: the arguments, the environment and the two files are
\* chosen, nothing has been set up.
CopyStart ==
    /\ argc \in 1 .. MaxArgc
    /\ faulty \in BOOLEAN
    /\ pc = "start"
    /\ src \in {SrcFile(n) : n \in Sizes}
    /\ Len(src) > MaxSize => ~faulty
    /\ dst \in OldFiles
    /\ AsyncAtStart
    /\ SyncAtStart
    /\ RingUnused
    /\ PoolAtStart
    /\ SpinUnused

Init ==
    /\ backend \in Backends
    /\ CopyStart

\* A step of main().
Driver ==
    \/ Usage
    \/ OpenFiles
    \/ close_src_dst_files
    \/ UringInit
    \/ UringLoop
    \/ UringSubmit
    \/ UringWait
    \/ UringHandle
    \/ UringHandleEnd
    \/ LaioInit
    \/ LaioLoop
    \/ LaioSubmit
    \/ LaioGetEvents
    \/ LaioHandle
    \/ LaioHandleEnd
    \/ PaioInit
    \/ PaioLoop
    \/ PaioSuspend
    \/ PaioScan
    \/ PaioScanEnd

Next == Driver \/ Complete

Spec == Init /\ [][Next]_vars

\* main() keeps running, and the OS finishes every request it holds.
FairSpec == Spec /\ WF_vars(Driver) /\ WF_vars(Complete)

\* sync-cp: the same start, the program being sync-cp.
SyncInit ==
    /\ backend = "sync"
    /\ CopyStart

SyncNext ==
    \/ Usage
    \/ OpenFiles
    \/ SyncAlloc
    \/ SyncLoop
    \/ SyncRead
    \/ SyncWrite
    \/ close_src_dst_files

SyncSpec == SyncInit /\ [][SyncNext]_vars

\* read() and write() on regular files return, and main() keeps running.
SyncFairSpec == SyncSpec /\ WF_vars(SyncNext)

\* circular-buffer: main() takes no argument and opens no file; its QUEUE
\* holds garbage.
RingInit ==
    /\ argc = 1
    /\ backend = "ring"
    /\ faulty = FALSE
    /\ pc = "start"
    /\ src = <<>>
    /\ dst = <<>>
    /\ AsyncAtStart
    /\ SyncAtStart
    /\ queue \in {UninitQueue(garbage) : garbage \in 0 .. (UINT32_MOD - 1)}
    /\ producer = [pc |-> "none", snd_i |-> 0, tail |-> 0, head |-> 0]
    /\ consumer = [pc |-> "none", rcv_i |-> 0, tail |-> 0, head |-> 0,
                   snd_i |-> 0]
    /\ PoolAtStart
    /\ SpinUnused

\* A step of thread_producer.
Producer ==
    \/ EnqueueLoadTail
    \/ EnqueueLoadHead
    \/ SimpleEnqueueLoadHead
    \/ SimpleEnqueueLoadTail
    \/ EnqueueStoreData
    \/ EnqueueStoreTail

\* A step of thread_consumer.
Consumer ==
    \/ DequeueLoadHead
    \/ DequeueLoadTail
    \/ DequeueLoadData
    \/ DequeueStoreHead
    \/ DequeueStoreHeadEarly
    \/ DequeueLateLoad

RingNext ==
    \/ queue_init
    \/ SpawnThreads
    \/ JoinThreads
    \/ Producer
    \/ Consumer

RingSpec == RingInit /\ [][RingNext]_vars

\* A step of the thread_func of thread t.
PoolThread(t) == PoolRead(t) \/ PoolWrite(t)

\* A step of main() of thread-pool-cp.
PoolMain ==
    \/ Usage
    \/ OpenFiles
    \/ PoolAlloc
    \/ PoolSpawn
    \/ PoolJoin
    \/ close_src_dst_files

\* thread-pool-cp: the same start as the other copies.
PoolInit ==
    /\ backend = "pool"
    /\ CopyStart

PoolNext == PoolMain \/ \E t \in Threads : PoolThread(t)

PoolSpec == PoolInit /\ [][PoolNext]_vars

\* main() and every thread keep running.
PoolFairSpec ==
    /\ PoolSpec
    /\ WF_vars(PoolMain)
    /\ \A t \in Threads : WF_vars(PoolThread(t))

\* A step of the thread_func of spinlock.c, thread t.
SpinThread(t) ==
    \/ TAS_acquire(t)
    \/ SpinLoad(t)
    \/ SpinStore(t)
    \/ TAS_release(t)

\* spinlock: main() takes no argument and opens no file; the flag of the
\* lock holds whatever the memory held.
SpinInit ==
    /\ argc = 1
    /\ backend = "spin"
    /\ faulty = FALSE
    /\ pc = "start"
    /\ src = <<>>
    /\ dst = <<>>
    /\ AsyncAtStart
    /\ SyncAtStart
    /\ RingUnused
    /\ PoolAtStart
    /\ lock_taken \in BOOLEAN
    /\ var = 0
    /\ spinners = [t \in Threads |-> [pc |-> "none", i |-> 0, reg |-> 0]]

SpinNext ==
    \/ TAS_init
    \/ SpinSpawn
    \/ SpinJoin
    \/ \E t \in Threads : SpinThread(t)

SpinSpec == SpinInit /\ [][SpinNext]_vars

TypeOK ==
    /\ pc \in {"start", "init", "loop", "submit", "wait", "handle", "scan",
               "close", "done", "failed", "killed"}
    /\ argc \in 1 .. MaxArgc
    /\ src_off \in Nat
    /\ scan_i \in 0 .. QUEUE_SIZE

(***************************************************************************)
(* Notions the properties are stated in.                                   *)
(***************************************************************************)

\* linux-aio: control blocks of a cell put in submit_list and not yet handed
\* to io_submit.
Unsubmitted(c) ==
    IF pc \in {"init", "loop", "submit", "handle"}
    THEN Cardinality({i \in DOMAIN submit_list : submit_list[i] = c})
    ELSE 0

\* Operations of a cell that are prepared or submitted and whose completion
\* main() has not handled yet.
Outstanding(c) ==
    CountCell(sq, c) + Unsubmitted(c) + CountCell(inflight, c)
        + CountCell(cq, c) + CountCell(events, c)

RECURSIVE SumOutstanding(_)
SumOutstanding(n) ==
    IF n = 0 THEN 0 ELSE Outstanding(n - 1) + SumOutstanding(n - 1)

\* The slot state the program itself records (linux-aio records none).
NotIdle(c) ==
    IF backend = "io_uring" THEN block_statuses[c].stage # "BLOCK_IDLE"
    ELSE wait_list[c]

\* Every operation transfers all it can and the source was more than one
\* pool of blocks, so that slots were reused.
Reused == Len(src) > QUEUE_SIZE * READ_BLOCK_SIZE

\* What a copy leaves in the destination when every operation transfers all
\* it can: the source up to the tracked size, at the length it is truncated to.
CopyResult ==
    LET tracked == IF backend = "io_uring" THEN open_src_file
                   ELSE RoundSize(open_src_file)
    IN  Truncate(SubSeq(src, 1, Min(Len(src), tracked)), tracked)

\* main() is about to handle a read completion with a negative result.
NegativeReadAtHand ==
    \/ /\ backend = "io_uring" /\ pc = "handle" /\ cq # <<>>
       /\ block_statuses[Head(cq).cell].stage = "BLOCK_IN_READ"
       /\ Head(cq).res < 0
    \/ /\ backend = "linux_aio" /\ pc = "handle" /\ events # <<>>
       /\ iocbs[Head(events).cell].aio_lio_opcode = "IO_CMD_PREAD"
       /\ Head(events).res < 0
    \/ /\ backend = "posix_aio" /\ pc = "scan" /\ scan_i < QUEUE_SIZE
       /\ AioDone(scan_i)
       /\ iocbs[scan_i].aio_lio_opcode = "LIO_READ"
       /\ aio_return(scan_i) < 0

\* A step of main(), not of the OS: the OS only ever takes a request away.
DriverStep == Len(inflight') >= Len(inflight)

\* The completion main() is about to handle, if there is one.
AtHand ==
    IF backend = "io_uring" /\ pc = "handle" /\ cq # <<>>
    THEN {Head(cq)}
    ELSE IF backend = "linux_aio" /\ pc = "handle" /\ events # <<>>
    THEN {Head(events)}
    ELSE IF backend = "posix_aio" /\ pc = "scan" /\ scan_i < QUEUE_SIZE
            /\ AioDone(scan_i)
    THEN {[cell |-> scan_i, res |-> aio_return(scan_i)]}
    ELSE {}

\* The state of a slot as the spec names it. io-uring records it in stage,
\* posix-aio in wait_list and the opcode of the control block; linux-aio
\* records the opcode only, the slot is idle when it has no operation.
SlotState(c) ==
    IF backend = "io_uring"
    THEN (IF block_statuses[c].stage = "BLOCK_IN_READ" THEN "ReadPending"
          ELSE IF block_statuses[c].stage = "BLOCK_IN_WRITE"
          THEN "WritePending" ELSE "Idle")
    ELSE IF (backend = "posix_aio" /\ ~wait_list[c])
            \/ (backend = "linux_aio" /\ Outstanding(c) = 0)
            \/ iocbs[c].aio_lio_opcode = "none"
    THEN "Idle"
    ELSE IF iocbs[c].aio_lio_opcode \in {"IO_CMD_PREAD", "LIO_READ"}
    THEN "ReadPending" ELSE "WritePending"

\* The result with which the completion of cell c's read (write) is at hand.
ReadAtHand(c) ==
    {h.res : h \in {g \in AtHand : g.cell = c /\ SlotState(c) = "ReadPending"}}

WriteAtHand(c) ==
    {h.res : h \in {g \in AtHand : g.cell = c /\ SlotState(c) = "WritePending"}}

\* Offset and length the slot records for its operation.
RecordedOffset(c) ==
    IF backend = "io_uring" THEN block_statuses[c].offset ELSE iocbs[c].offset

RecordedLength(c) ==
    IF backend = "io_uring" THEN block_statuses[c].size ELSE iocbs[c].nbytes

\* The length that was requested for the write of cell c.
RequestedWriteLength(c) ==
    IF backend = "io_uring" THEN READ_BLOCK_SIZE ELSE iocbs[c].nbytes

\* main() leaves through exit(EXIT_FAILURE), or is killed.
Aborted == {"failed", "killed"}

CeilDiv(a, b) == (a + b - 1) \div b

(***************************************************************************)
(* Properties.                                                             *)
(***************************************************************************)

\* C1: when a run of any of the three backends exits successfully, the
\* destination has the same length and the same bytes as the source (stated
\* for the runs in which every operation transfers all it can).
C1_DestinationEqualsSource == pc = "done" /\ ~faulty => dst = src

\* C2: the size handed to the final truncation is the exact source size that
\* open_src_file determined, so the destination ends with that length
\* (stated for the runs in which every operation transfers all it can).
C2_TruncatedToExactSize ==
    /\ pc = "close" /\ ~faulty => src_size = open_src_file
    /\ pc = "done" /\ ~faulty => Len(dst) = open_src_file

\* C3: the in-flight counter is at least 0 and at most QUEUE_SIZE in every
\* reachable state.
C3_InFlightBounded == num_io_reqs >= 0 /\ num_io_reqs <= QUEUE_SIZE

C3_Witness ==
    /\ num_io_reqs = QUEUE_SIZE
    /\ src_off > QUEUE_SIZE * READ_BLOCK_SIZE
    /\ pc = "handle"

\* C4: a slot never has more than one operation outstanding; in io-uring and
\* posix-aio it has one exactly when its recorded state is not Idle, and in
\* linux-aio, which records no slot state, the outstanding operations are as
\* many as num_io_reqs counts.
C4_OneOperationPerSlot ==
    /\ \A c \in Cells : Outstanding(c) <= 1
    /\ backend # "linux_aio" =>
          \A c \in Cells : (Outstanding(c) = 1) <=> NotIdle(c)
    /\ backend = "linux_aio" /\ pc # "failed" =>
          SumOutstanding(QUEUE_SIZE) = num_io_reqs

C4_Witness ==
    /\ backend = "posix_aio"
    /\ src_off > QUEUE_SIZE * READ_BLOCK_SIZE
    /\ \E c \in Cells : Outstanding(c) = 1 /\ iocbs[c].aio_lio_opcode = "LIO_READ"
    /\ \E c \in Cells : Outstanding(c) = 0 /\ ~wait_list[c]

\* C5: the read cursor never decreases, is never negative and never exceeds
\* the tracked total size.
C5_CursorMonotoneBounded ==
    /\ [](src_off >= 0 /\ src_off <= src_size)
    /\ [][src_off' >= src_off]_vars

C5_Witness ==
    /\ src_off = src_size
    /\ src_off > QUEUE_SIZE * READ_BLOCK_SIZE
    /\ Len(src) % READ_BLOCK_SIZE # 0
    /\ pc = "handle"

\* C6: when a run terminates successfully the read cursor equals the source
\* size exactly (stated for the runs in which every operation transfers all
\* it can).
C6_CursorEqualsSourceSize == pc = "done" /\ ~faulty => src_off = Len(src)

\* C7: the driver loop is left only with no operation in flight and the
\* cursor at the total size, and its body is never entered again once both
\* hold.
C7_LoopExitsIffDrained ==
    /\ pc = "close" => num_io_reqs = 0 /\ src_off = src_size
    /\ pc \in {"submit", "wait"} => ~(num_io_reqs = 0 /\ src_off = src_size)

\* C8: when every operation transfers all it can, every run that starts
\* copying finishes, and main() never waits for a completion while the OS
\* holds no operation and no completion.
C8_Terminates ==
    /\ (~faulty /\ pc = "init") ~> (pc = "done")
    /\ [](~faulty /\ pc = "wait" => inflight # <<>> \/ cq # <<>>)

C8_Witness ==
    /\ pc = "done"
    /\ ~faulty
    /\ backend = "linux_aio"
    /\ Reused

\* C9: whatever the order in which completions are delivered, a successful
\* run whose operations transfer all they can ends with the same destination.
C9_OrderIndependent == pc = "done" /\ ~faulty => dst = CopyResult

\* The last block went to cell 1: its first write was handled before cell 0's,
\* the reverse of the order of submission.
C9_Witness ==
    /\ pc = "done"
    /\ ~faulty
    /\ backend = "io_uring"
    /\ Len(src) = QUEUE_SIZE * READ_BLOCK_SIZE + 1
    /\ block_statuses[1].offset = QUEUE_SIZE * READ_BLOCK_SIZE

\* C10: handling a read completion with a negative result aborts the run:
\* no write is submitted for the slot, no further read is issued.
C10_NegativeReadAborts ==
    [][NegativeReadAtHand /\ DriverStep =>
          /\ pc' = "failed"
          /\ inflight' = inflight
          /\ sq' = sq
          /\ submit_list' = submit_list
          /\ src_off' = src_off]_vars

\* C11: handling a write completion whose result is negative or differs from
\* the length requested for that write aborts the run: the slot gets no new
\* read and is not retired.
C11_BadWriteAborts ==
    [][(\E c \in Cells : \E res \in WriteAtHand(c) :
            res < 0 \/ res # RequestedWriteLength(c)) /\ DriverStep =>
          /\ pc' = "failed"
          /\ src_off' = src_off
          /\ num_io_reqs' = num_io_reqs
          /\ inflight' = inflight
          /\ sq' = sq
          /\ submit_list' = submit_list]_vars

\* C12: with an empty source and two arguments, when every operation
\* transfers all it can, no read is prepared or submitted, the loop body is
\* never entered, the run does not fail, and it ends with an empty destination.
C12_EmptySource ==
    Len(src) = 0 /\ argc = 3 /\ ~faulty =>
        /\ sq = <<>> /\ submit_list = <<>> /\ inflight = <<>>
        /\ pc \notin {"submit", "wait", "handle", "scan"}
        /\ pc \notin Aborted
        /\ pc = "done" => Len(dst) = 0

\* Bytes a request moves when every operation transfers all it can.
TransferLength(req) ==
    IF req.op = "read" THEN ReadAvail(req) ELSE req.nbytes

\* C13: when every operation transfers all it can, each read and each write
\* that moves bytes is at an offset k * READ_BLOCK_SIZE inside the source and
\* moves min(READ_BLOCK_SIZE, S - offset) bytes, and a finished run has gone
\* through ceil(S / READ_BLOCK_SIZE) blocks, S being the source's size.
C13_BlockPairs ==
    ~faulty =>
        /\ \A i \in DOMAIN inflight :
              LET req == inflight[i] IN
              /\ req.offset % READ_BLOCK_SIZE = 0
              /\ TransferLength(req) > 0 =>
                    /\ req.offset < Len(src)
                    /\ TransferLength(req) =
                          Min(READ_BLOCK_SIZE, Len(src) - req.offset)
        /\ pc = "done" =>
              CeilDiv(src_off, READ_BLOCK_SIZE) =
                  CeilDiv(Len(src), READ_BLOCK_SIZE)

\* C14: once the files are open, the size main() works with and the size the
\* destination is pre-allocated to are the source's st_size itself.
C14_ExactSourceSize ==
    pc = "init" => src_size = Len(src) /\ Len(dst) = Len(src)

\* C15: a setup that does not get to the copy loop ends in
\* exit(EXIT_FAILURE), with no read or write prepared or submitted.
C15_SetupFailureExits ==
    [][pc = "init" /\ pc' \notin {"init", "loop"} =>
          /\ pc' = "failed"
          /\ sq' = <<>>
          /\ submit_list' = <<>>
          /\ inflight' = <<>>]_vars

\* C16: a program started with an argument count other than two (argc # 3)
\* never gets past the usage error: it opens and creates no file, sets no
\* size, fills no buffer and submits nothing before it exits with failure.
C16_UsageError ==
    /\ [](argc # 3 => pc \in {"start", "failed"})
    /\ [][argc # 3 =>
            /\ dst' = dst
            /\ src_size' = src_size
            /\ buffers' = buffers
            /\ inflight' = inflight]_vars

\* Three arguments given, an older destination file still in place.
C16_Witness ==
    /\ argc = 4
    /\ pc = "failed"
    /\ dst # <<>>

\* C17: when every operation transfers all it can, in a step that does not
\* abort the run a slot's state changes only from Idle to ReadPending, from
\* ReadPending to WritePending, from WritePending to ReadPending or from
\* WritePending to Idle.
C17_OnlyFourTransitions ==
    [][~faulty /\ pc' \notin Aborted =>
          \A c \in Cells :
              \/ SlotState(c)' = SlotState(c)
              \/ <<SlotState(c), SlotState(c)'>> \in
                    {<<"Idle", "ReadPending">>,
                     <<"ReadPending", "WritePending">>,
                     <<"WritePending", "ReadPending">>,
                     <<"WritePending", "Idle">>}]_vars

\* C17, amended: in a step that does not abort the run a slot's state changes
\* only from Idle to ReadPending when a read is set up for it, from
\* ReadPending to WritePending when its read completion is handled, from
\* WritePending to ReadPending or to Idle when its write completion is
\* handled, and, in linux-aio and posix-aio only, from ReadPending to Idle
\* when its read completion of zero bytes is handled.
C17_SlotTransitions ==
    [][pc' \notin Aborted =>
          \A c \in Cells :
              \/ SlotState(c)' = SlotState(c)
              \/ /\ SlotState(c) = "Idle" /\ SlotState(c)' = "ReadPending"
                 /\ pc = "init"
              \/ /\ SlotState(c) = "ReadPending"
                 /\ SlotState(c)' = "WritePending"
                 /\ ReadAtHand(c) # {}
              \/ /\ SlotState(c) = "WritePending"
                 /\ SlotState(c)' \in {"ReadPending", "Idle"}
                 /\ WriteAtHand(c) # {}
              \/ /\ SlotState(c) = "ReadPending" /\ SlotState(c)' = "Idle"
                 /\ backend # "io_uring"
                 /\ ReadAtHand(c) = {0}]_vars

\* A posix-aio slot retired by the read of zero bytes at the end of a source
\* of whole blocks, after the pool has been reused.
C17_Witness ==
    /\ backend = "posix_aio"
    /\ ~faulty
    /\ pc = "scan"
    /\ src_off > QUEUE_SIZE * READ_BLOCK_SIZE
    /\ \E c \in Cells :
          /\ SlotState(c) = "Idle"
          /\ iocbs[c].aio_lio_opcode = "LIO_READ"
          /\ iocbs[c].offset = Len(src)

\* C18: a step sets up a read for a slot only if the slot is Idle or its write
\* completion is being handled, and only with the cursor below the tracked
\* size; the read is then the slot's only operation, it records the old cursor
\* as its offset and min(READ_BLOCK_SIZE, tracked size - old cursor) as its
\* length, and the cursor has advanced by that length. In the setup step,
\* which fills the pool, the old cursor of slot c is c * READ_BLOCK_SIZE.
C18_ReadSubmission ==
    [][\A c \in Cells :
          SlotState(c) # "ReadPending" /\ SlotState(c)' = "ReadPending" =>
              LET old == IF pc = "init" THEN c * READ_BLOCK_SIZE ELSE src_off
              IN  /\ SlotState(c) = "Idle" \/ WriteAtHand(c) # {}
                  /\ Outstanding(c)' = 1
                  /\ old < src_size'
                  /\ RecordedOffset(c)' = old
                  /\ RecordedLength(c)' =
                        Min(READ_BLOCK_SIZE, src_size' - old)
                  /\ pc # "init" => src_off' = old + RecordedLength(c)'
                  /\ pc = "init" =>
                        src_off' = Min(src_size',
                                       QUEUE_SIZE * READ_BLOCK_SIZE)]_vars

\* io-uring has reused slot 0 for the last, short block of the source.
C18_Witness ==
    /\ backend = "io_uring"
    /\ block_statuses[0].stage = "BLOCK_IN_READ"
    /\ block_statuses[0].offset = QUEUE_SIZE * READ_BLOCK_SIZE
    /\ block_statuses[0].size = 1
    /\ src_off = src_size

\* C19: when every operation transfers all it can and the read completion of
\* slot c is handled, the write then set up for the slot uses the slot's own
\* buffer, goes to the offset recorded for the read, and has the read's
\* length: the length recorded for it, or the byte count it returned.
C19_WriteMirrorsRead ==
    [][\A c \in Cells :
          /\ ~faulty
          /\ ReadAtHand(c) # {}
          /\ SlotState(c)' = "WritePending"
          => LET write == IF backend = "io_uring" THEN sq'[Len(sq')]
                          ELSE Request(c, iocbs'[c])
             IN  /\ write.op = "write"
                 /\ write.cell = c
                 /\ write.offset = RecordedOffset(c)
                 /\ write.nbytes \in {RecordedLength(c)} \cup ReadAtHand(c)]_vars

\* The write completion of slot c is at hand with all the bytes requested.
GoodWriteAtHand(c) ==
    \E res \in WriteAtHand(c) : res > 0 /\ res = RequestedWriteLength(c)

\* Handling a good write completion: the slot is reused with the count kept
\* while the cursor is below the tracked size, retired with the count one
\* lower otherwise.
ReuseOrRetire ==
    \A c \in Cells :
        GoodWriteAtHand(c) /\ DriverStep =>
            IF src_off < src_size
            THEN SlotState(c)' = "ReadPending" /\ num_io_reqs' = num_io_reqs
            ELSE SlotState(c)' = "Idle" /\ num_io_reqs' = num_io_reqs - 1

\* C20: when every operation transfers all it can, a good write completion
\* is handled by reusing or retiring the slot as above, and the in-flight
\* count goes down in no other step.
C20_RetiredOnlyAfterWrite ==
    [][~faulty =>
          /\ ReuseOrRetire
          /\ num_io_reqs' < num_io_reqs =>
                \E c \in Cells : GoodWriteAtHand(c) /\ ~(src_off < src_size)]_vars

\* C20, amended: a good write completion is handled by reusing or retiring
\* the slot as above; the in-flight count goes down only by 1, and only when
\* a write completion is handled with the cursor not below the tracked size
\* or, in linux-aio and posix-aio, when a read or write completion of zero
\* bytes is handled.
C20_ReuseOrRetire ==
    [][/\ ReuseOrRetire
       /\ num_io_reqs' < num_io_reqs =>
             /\ num_io_reqs' = num_io_reqs - 1
             /\ \E c \in Cells :
                   /\ SlotState(c)' = "Idle"
                   /\ \/ WriteAtHand(c) # {} /\ ~(src_off < src_size)
                      \/ /\ backend # "io_uring"
                         /\ ReadAtHand(c) \cup WriteAtHand(c) = {0}]_vars

\* linux-aio has retired one slot after its write and holds the other one's
\* read of zero bytes at the end of a source of whole blocks.
C20_Witness ==
    /\ backend = "linux_aio"
    /\ ~faulty
    /\ num_io_reqs = 1
    /\ src_off = src_size
    /\ \E c \in Cells : ReadAtHand(c) = {0}
    /\ \E c \in Cells :
          SlotState(c) = "Idle" /\ iocbs[c].aio_lio_opcode = "IO_CMD_PWRITE"

\* C21: for a source of no more than MaxSize bytes, when the setup has
\* prepared the initial reads, the slots 0 .. k - 1 are ReadPending, slot c at
\* offset c * READ_BLOCK_SIZE, the others are Idle, and the in-flight count
\* is k, where k = min(QUEUE_SIZE, ceil(S / READ_BLOCK_SIZE)) for the source
\* size S.
C21_InitialReadsOfSource ==
    [][pc = "init" /\ pc' = "loop" /\ Len(src) <= MaxSize =>
          LET k == Min(QUEUE_SIZE, CeilDiv(Len(src), READ_BLOCK_SIZE))
          IN  /\ num_io_reqs' = k
              /\ \A c \in Cells :
                    IF c < k
                    THEN /\ SlotState(c)' = "ReadPending"
                         /\ RecordedOffset(c)' = c * READ_BLOCK_SIZE
                    ELSE SlotState(c)' = "Idle"]_vars

\* C21, amended: the same with k = min(QUEUE_SIZE, ceil(T / READ_BLOCK_SIZE))
\* for the tracked size T the setup leaves in src_size: the size open_src_file
\* reported in io-uring, that size rounded up to the next block boundary in
\* linux-aio and posix-aio.
C21_InitialReads ==
    [][pc = "init" /\ pc' = "loop" =>
          LET k == Min(QUEUE_SIZE, CeilDiv(src_size', READ_BLOCK_SIZE))
          IN  /\ num_io_reqs' = k
              /\ \A c \in Cells :
                    IF c < k
                    THEN /\ SlotState(c)' = "ReadPending"
                         /\ RecordedOffset(c)' = c * READ_BLOCK_SIZE
                    ELSE SlotState(c)' = "Idle"]_vars

\* linux-aio has prepared two reads for a source of one block, the second
\* one at the end of the file, and has submitted nothing yet.
C21_Witness ==
    /\ backend = "linux_aio"
    /\ pc = "loop"
    /\ Len(src) = READ_BLOCK_SIZE
    /\ inflight = <<>> /\ cq = <<>> /\ events = <<>>
    /\ num_io_reqs = QUEUE_SIZE
    /\ SlotState(1) = "ReadPending"
    /\ RecordedOffset(1) = READ_BLOCK_SIZE

\* C22: in linux-aio and posix-aio, for a source size that fits a uint32_t,
\* the tracked size after the rounding is a multiple of READ_BLOCK_SIZE, is
\* not below the source size and exceeds it by READ_BLOCK_SIZE at most.
C22_RoundedSize ==
    backend # "io_uring" /\ pc = "loop" /\ Len(src) < UINT32_MOD =>
        /\ src_size % READ_BLOCK_SIZE = 0
        /\ src_size >= Len(src)
        /\ src_size - Len(src) <= READ_BLOCK_SIZE

\* C23: in io-uring, num_block_in_progress is the number of blocks whose
\* stage is not BLOCK_IDLE, in every state, so before and after the handling
\* of every completion.
C23_CountIsNonIdleBlocks ==
    backend = "io_uring" =>
        num_io_reqs =
            Cardinality({c \in Cells : block_statuses[c].stage # "BLOCK_IDLE"})

\* Between two completions, with one block retired after the pool was reused
\* and the other still in progress.
C23_Witness ==
    /\ backend = "io_uring"
    /\ pc = "handle"
    /\ cq # <<>>
    /\ src_off > QUEUE_SIZE * READ_BLOCK_SIZE
    /\ num_io_reqs = 1
    /\ \E c \in Cells : block_statuses[c].stage = "BLOCK_IDLE"

\* The kind of operation the stage of a block stands for.
StageKind(c) ==
    IF block_statuses[c].stage = "BLOCK_IN_READ" THEN "read"
    ELSE IF block_statuses[c].stage = "BLOCK_IN_WRITE" THEN "write"
    ELSE "none"

IssuedCount(op, offset) ==
    IF <<op, offset>> \in DOMAIN issued THEN issued[<<op, offset>>] ELSE 0

\* C25: no operation at any offset is handed to the OS twice; every one is at
\* a block offset below the tracked size, and a write follows a read of the
\* same offset. A successful run in which every operation transfers all it
\* can has read every block offset below the tracked size once. The slots
\* that are not Idle hold different blocks.
C25_NoBlockRetried ==
    /\ \A x \in DOMAIN issued :
          /\ issued[x] = 1
          /\ x[2] % READ_BLOCK_SIZE = 0
          /\ x[2] < src_size
          /\ x[1] = "write" => IssuedCount("read", x[2]) = 1
    /\ pc = "done" /\ ~faulty =>
          \A k \in 0 .. UINT32_MOD :
              k * READ_BLOCK_SIZE < src_size =>
                  IssuedCount("read", k * READ_BLOCK_SIZE) = 1
    /\ \A c, d \in Cells :
          c # d /\ SlotState(c) # "Idle" /\ SlotState(d) # "Idle" =>
              RecordedOffset(c) # RecordedOffset(d)

\* posix-aio has finished a run in which both slots were reused and every
\* block was read and written.
C25_Witness ==
    /\ backend = "posix_aio"
    /\ pc = "done"
    /\ ~faulty
    /\ Len(src) = QUEUE_SIZE * READ_BLOCK_SIZE + 1
    /\ \A k \in 0 .. QUEUE_SIZE :
          /\ IssuedCount("read", k * READ_BLOCK_SIZE) = 1
          /\ IssuedCount("write", k * READ_BLOCK_SIZE) = 1

\* C26: in posix-aio, in every state and so at the start of every iteration,
\* wait_list[c] is set exactly for the slots with an operation that is
\* submitted and not handled yet, and num_io_reqs is the number of entries
\* set; after the setup a slot whose entry is not set is never given an
\* operation, never handled by the scan and never listed again.
C26_WaitList ==
    /\ [](backend = "posix_aio" =>
            /\ \A c \in Cells : wait_list[c] <=> Outstanding(c) = 1
            /\ num_io_reqs = Cardinality({c \in Cells : wait_list[c]}))
    /\ [][backend = "posix_aio" /\ pc # "init" =>
            \A c \in Cells :
                ~wait_list[c] =>
                    /\ ~wait_list'[c]
                    /\ iocbs'[c] = iocbs[c]
                    /\ CountCell(inflight', c) = 0]_vars

\* At the start of an iteration, after the pool was reused: one slot has been
\* retired, the other one still has its operation.
C26_Witness ==
    /\ backend = "posix_aio"
    /\ pc = "loop"
    /\ src_off > QUEUE_SIZE * READ_BLOCK_SIZE
    /\ num_io_reqs = 1
    /\ \E c \in Cells : ~wait_list[c] /\ iocbs[c].aio_lio_opcode = "LIO_WRITE"

\* Operations of a cell the kernel holds or has completed and main() has not
\* handled yet.
InKernel(c) ==
    CountCell(inflight, c) + CountCell(cq, c) + CountCell(events, c)

\* The operations of the cells below n that are in the kernel or listed for
\* the next io_submit.
RECURSIVE SumKernelOrListed(_)
SumKernelOrListed(n) ==
    IF n = 0 THEN 0
    ELSE InKernel(n - 1) + Unsubmitted(n - 1) + SumKernelOrListed(n - 1)

\* C27: in linux-aio, submit_list holds at most QUEUE_SIZE control blocks,
\* each once and none with an operation in the kernel; handling a completion
\* appends exactly the control block it re-arms; a submit step that does not
\* end the run hands every listed control block to the kernel; and
\* num_io_reqs is the number of operations in the kernel or listed.
C27_EveryRearmedSubmitted ==
    /\ [](backend = "linux_aio" /\ pc \notin Aborted =>
            /\ Len(submit_list) <= QUEUE_SIZE
            /\ \A c \in Cells :
                   /\ Unsubmitted(c) <= 1
                   /\ Unsubmitted(c) = 1 => InKernel(c) = 0
            /\ num_io_reqs = SumKernelOrListed(QUEUE_SIZE))
    /\ [][backend = "linux_aio" /\ pc = "handle" /\ pc' = "handle" =>
            \/ iocbs' = iocbs /\ submit_list' = submit_list
            \/ /\ iocbs'[Head(events).cell] # iocbs[Head(events).cell]
               /\ submit_list' = Append(submit_list, Head(events).cell)]_vars
    /\ [][backend = "linux_aio" /\ pc = "submit" /\ pc' = "wait" =>
            inflight' = inflight \o
                [i \in 1 .. Len(submit_list) |->
                    [cell |-> submit_list[i],
                     op |-> IF iocbs[submit_list[i]].aio_lio_opcode
                                = "IO_CMD_PREAD"
                            THEN "read" ELSE "write",
                     offset |-> iocbs[submit_list[i]].offset,
                     nbytes |-> iocbs[submit_list[i]].nbytes]]]_vars

\* The offsets at which sync-cp has called read() or write() so far.
IssuedOffsets(op) == {x[2] : x \in {y \in DOMAIN issued : y[1] = op}}

\* The first n block offsets: 0, READ_BLOCK_SIZE, ..
BlockOffsets(n) == {k * READ_BLOCK_SIZE : k \in 0 .. (n - 1)}

\* C28: in sync-cp, (1) reads and writes alternate, starting with a read, and
\* the k-th of either is at the k-th block offset, none twice; (2) the loop
\* goes on to another read only after a full block and with less than S bytes
\* copied, and leaves for the close only after a short read or with S bytes
\* copied; (3) a write that returns fewer bytes than were read ends the run
\* with a failure; (4) a successful run in which every read returned what the
\* file had has written S bytes; (5) every run ends.
C28_SyncCopy ==
    /\ [](backend = "sync" =>
            /\ \A x \in DOMAIN issued : issued[x] = 1
            /\ IssuedOffsets("read")
                   = BlockOffsets(Cardinality(IssuedOffsets("read")))
            /\ IssuedOffsets("write")
                   = BlockOffsets(Cardinality(IssuedOffsets("write")))
            /\ Cardinality(IssuedOffsets("read"))
                   = Cardinality(IssuedOffsets("write"))
                       + (IF pc = "write"
                             \/ (pc = "failed" /\ sync_bytes_read = 0 - 1)
                          THEN 1 ELSE 0)
            /\ pc = "read" =>
                   /\ dst_pos < Len(src)
                   /\ dst_pos > 0 => sync_bytes_read = READ_BLOCK_SIZE
            /\ pc \in {"close", "done"} =>
                   \/ sync_bytes_read < READ_BLOCK_SIZE
                   \/ dst_pos >= Len(src)
            /\ pc = "done" /\ ~faulty => dst_pos = Len(src))
    /\ [][backend = "sync" /\ pc = "write"
             /\ dst_pos' - dst_pos < sync_bytes_read => pc' = "failed"]_vars
    /\ <>(backend = "sync" => pc \in {"done", "failed"})

\* C29: the step that completes the consumer's i-th successful dequeue hands
\* thread_consumer the value of the i-th successful enqueue, which is i - 1,
\* the consumer's receive index rcv_i.
C29_FifoOrder ==
    [][/\ backend = "ring"
       /\ consumer.pc \in {"store_head", "late_load"}
       /\ consumer' # consumer
       => consumer'.snd_i = consumer.rcv_i]_vars

\* C30: once queue_init has returned, head, tail, cached_head and cached_tail
\* are 0 (until the threads run) and mask is size - 1; every index the
\* threads compute lies inside the array; the queue never holds more than
\* size elements.
C30_QueueInitialised ==
    backend = "ring" /\ pc \in {"spawn", "join", "done"} =>
        /\ pc = "spawn" =>
               /\ queue.head = 0
               /\ queue.tail = 0
               /\ queue.cached_head = 0
               /\ queue.cached_tail = 0
        /\ queue.mask = queue.size - 1
        /\ producer.pc = "store_data" =>
               BitAnd(producer.tail, queue.mask) < queue.size
        /\ consumer.pc \in {"load_data", "late_load"} =>
               BitAnd(consumer.head, queue.mask) < queue.size
        /\ Uint32(queue.tail + UINT32_MOD - queue.head) <= queue.size

\* C36: in io-uring-cp the entries prepared and not yet flushed are never
\* more than QUEUE_SIZE, the number the ring was created for, and no slot has
\* two of them; so each io_uring_get_sqe finds a free entry.
C36_SubmissionQueueFits ==
    backend = "io_uring" =>
        /\ Len(sq) <= QUEUE_SIZE
        /\ \A c \in Cells : CountCell(sq, c) <= 1

\* The queue is full with entries prepared while handling completions.
C36_Witness ==
    /\ backend = "io_uring"
    /\ pc = "handle"
    /\ Len(sq) = QUEUE_SIZE
    /\ \E i \in DOMAIN sq : sq[i].op = "write"

\* The step leaves every slot other than c as it is, and every buffer.
OtherSlotsKept(c) ==
    /\ \A d \in Cells \ {c} :
           /\ block_statuses'[d] = block_statuses[d]
           /\ iocbs'[d] = iocbs[d]
           /\ wait_list'[d] = wait_list[d]
    /\ buffers' = buffers

\* No byte of the source is left to be read.
NoBytesRemain ==
    IF backend = "io_uring" THEN Uint32(src_size - src_off) = 0
    ELSE src_off >= src_size

\* The step handles the completion of c's write with no bytes remaining:
\* the attempted read changes nothing, the cursor, the requests and what the
\* slot records for its block stay.
ReadAttemptKept(c) ==
    /\ src_off' = src_off
    /\ sq' = sq
    /\ submit_list' = submit_list
    /\ inflight' = inflight
    /\ RecordedOffset(c)' = RecordedOffset(c)
    /\ RecordedLength(c)' = RecordedLength(c)

\* C35 as stated: a step of main() that handles a completion of slot c
\* leaves the other slots and all buffers alone; if it switches c from read
\* to write it leaves the cursor, the count and c's recorded offset and size
\* unchanged; if it handles c's write when no bytes remain, the read it
\* attempts changes nothing.
C35_FrameAsStated ==
    [][\A h \in AtHand :
          DriverStep =>
              /\ OtherSlotsKept(h.cell)
              /\ SlotState(h.cell) = "ReadPending"
                   /\ SlotState(h.cell)' = "WritePending" =>
                     /\ src_off' = src_off
                     /\ num_io_reqs' = num_io_reqs
                     /\ RecordedOffset(h.cell)' = RecordedOffset(h.cell)
                     /\ RecordedLength(h.cell)' = RecordedLength(h.cell)
              /\ SlotState(h.cell) = "WritePending" /\ NoBytesRemain =>
                     ReadAttemptKept(h.cell)]_vars

\* C35, amended: as stated, except that in linux-aio and posix-aio the length
\* recorded for the write is the result of the read.
C35_Frame ==
    [][\A h \in AtHand :
          DriverStep =>
              /\ OtherSlotsKept(h.cell)
              /\ SlotState(h.cell) = "ReadPending"
                   /\ SlotState(h.cell)' = "WritePending" =>
                     /\ src_off' = src_off
                     /\ num_io_reqs' = num_io_reqs
                     /\ RecordedOffset(h.cell)' = RecordedOffset(h.cell)
                     /\ RecordedLength(h.cell)' =
                            IF backend = "io_uring"
                            THEN RecordedLength(h.cell) ELSE h.res
              /\ SlotState(h.cell) = "WritePending" /\ NoBytesRemain =>
                     ReadAttemptKept(h.cell)]_vars

\* A linux-aio slot has just been switched to the write of a short block: its
\* control block records the bytes read, not the length asked of the read.
C35_Witness ==
    /\ backend = "linux_aio"
    /\ pc = "handle"
    /\ \E c \in Cells :
          /\ iocbs[c].aio_lio_opcode = "IO_CMD_PWRITE"
          /\ iocbs[c].nbytes = 1
          /\ Unsubmitted(c) = 1

(***************************************************************************)
(* thread-pool-cp.c                                                        *)
(***************************************************************************)

\* Every thread_func has returned.
AllWorkersDone == \A t \in Threads : workers[t].pc = "done"

\* The transfer thread t is in the middle of is at the start of a block that
\* is its own: block k with k mod NUM_THREADS = t.
OwnBlock(t) ==
    workers[t].pc = "write" =>
        /\ workers[t].offset % READ_BLOCK_SIZE = 0
        /\ (workers[t].offset \div READ_BLOCK_SIZE) % NUM_THREADS = t
        /\ workers[t].bytes_read <= READ_BLOCK_SIZE

\* A step in which thread t does nothing leaves the buffer of thread t alone.
OwnBuffer(t) ==
    workers'[t] = workers[t] =>
        \A j \in BufferOf(t) : pool_buffer'[j] = pool_buffer[j]

\* Block k was read once and written once, at offset k * READ_BLOCK_SIZE.
CopiedOnce(k) ==
    /\ <<"read", k * READ_BLOCK_SIZE>> \in DOMAIN issued
    /\ <<"write", k * READ_BLOCK_SIZE>> \in DOMAIN issued
    /\ issued[<<"read", k * READ_BLOCK_SIZE>>] = 1
    /\ issued[<<"write", k * READ_BLOCK_SIZE>>] = 1

\* C32: in thread-pool-cp every block k with k * B < S is copied exactly
\* once, by thread k mod T at offset k * B; a thread reads into and writes
\* from its own buffer only, so that the destination ranges of two threads
\* never overlap; and when every operation transfers all it can, after the
\* threads are joined and the files closed the destination holds the bytes
\* of the source.
C32_PoolCopy ==
    /\ [](\A t \in Threads : OwnBlock(t))
    /\ [][\A t \in Threads : OwnBuffer(t)]_vars
    /\ [](\A x \in DOMAIN issued : issued[x] <= 1)
    /\ []((pc = "done" /\ ~faulty) =>
            /\ dst = src
            /\ \A k \in 0 .. Len(src) :
                  k * READ_BLOCK_SIZE < Len(src) => CopiedOnce(k))

\* C33: every worker thread of thread-pool-cp terminates for every source
\* size that fits 32 bits: its loop offset i, advanced by B * T in each
\* round, never takes the thread back into the loop with a smaller value.
C33_WorkersTerminate ==
    /\ [][Len(src) < UINT32_MOD =>
            \A t \in Threads : workers'[t].pc = "loop" =>
                                   workers'[t].i >= workers[t].i]_vars
    /\ Len(src) < UINT32_MOD => <>(pc = "failed" \/ AllWorkersDone)

(***************************************************************************)
(* spinlock.c                                                              *)
(***************************************************************************)

\* Thread t is between the return of TAS_acquire and its TAS_release.
Holding(t) == spinners[t].pc \in {"load", "store", "release"}

\* The increments thread t has stored so far.
Incremented(t) ==
    spinners[t].i + (IF spinners[t].pc = "release" THEN 1 ELSE 0)

RECURSIVE SumIncremented(_)
SumIncremented(n) ==
    IF n = 0 THEN 0 ELSE Incremented(n - 1) + SumIncremented(n - 1)

\* C34: with the test-and-set spinlock at most one thread is between the
\* return of TAS_acquire and its TAS_release; no increment of var is lost,
\* and when all threads have finished var is NUM_THREADS * NUM_ITERATIONS.
C34_MutualExclusion ==
    /\ Cardinality({t \in Threads : Holding(t)}) <= 1
    /\ var = SumIncremented(NUM_THREADS)
    /\ (\A t \in Threads : spinners[t].pc = "done") =>
          var = NUM_THREADS * SPIN_NUM_ITERATIONS

\* One thread is about to store its increment while another one, which has
\* held the lock before, spins in TAS_acquire.
C34_Witness ==
    \E t, u \in Threads :
        /\ spinners[t].pc = "store"
        /\ spinners[t].i > 0
        /\ spinners[u].pc = "acquire"
        /\ spinners[u].i > 0
        /\ lock_taken

(***************************************************************************)
(* circular-buffer.c: occupancy                                            *)
(***************************************************************************)

\* tail - head in uint32_t: the elements enqueued and not yet dequeued.
Occupancy == Uint32(queue.tail + UINT32_MOD - queue.head)

\* The position of the oldest element thread_consumer has not loaded yet.
OldestUnread ==
    IF consumer.pc = "late_load" THEN consumer.head ELSE queue.head

\* The cells holding an element enqueued and not yet loaded by the consumer.
UnreadCells ==
    {BitAnd(Uint32(OldestUnread + k), queue.mask) :
        k \in 0 .. (Uint32(queue.tail + UINT32_MOD - OldestUnread) - 1)}

\* queue_enqueue or queue_enqueue_simple returns false in this step.
EnqueueFails ==
    /\ producer.pc \in {"enqueue_head", "simple_tail"}
    /\ producer'.pc = "simple_head"

\* queue_dequeue_simple returns false in this step.
DequeueFails ==
    /\ consumer.pc = "load_tail"
    /\ consumer'.pc = "load_head"

\* C31: while the two threads run, tail - head modulo 2^32 stays in
\* [0, size]; the cell an enqueue stores to holds no element that is still
\* to be dequeued, and an enqueue fails only if the queue was full when it
\* read head; the position a dequeue loads from has been written, and a
\* dequeue fails only if the queue was empty when it read tail.
C31_RingOccupancy ==
    /\ [](backend = "ring" /\ pc \in {"join", "done"} =>
            /\ Occupancy <= queue.size
            /\ producer.pc = "store_data" =>
                   BitAnd(producer.tail, queue.mask) \notin UnreadCells
            /\ consumer.pc \in {"load_data", "late_load"} =>
                   /\ consumer.head # queue.tail
                   /\ Uint32(queue.tail + UINT32_MOD - consumer.head)
                          <= queue.size)
    /\ [][/\ EnqueueFails =>
               Uint32(queue.tail + UINT32_MOD
                      - (IF producer.pc = "simple_tail" THEN producer.head
                         ELSE queue.head)) = queue.size
          /\ DequeueFails => queue.tail = queue.head]_vars

====
